---- MODULE Spec2Model ----
(***************************************************************************)
(* A model of the lootbox toolkit: the core data model (LootboxItem,       *)
(* Lootbox), the Monte Carlo simulator, and the probability optimizer.     *)
(*                                                                         *)
(* Numbers.  The program computes in floating point; the model computes    *)
(* in fixed point.  A probability is an integer number of units of 1e-7,   *)
(* so 1.0 is One units and the validators' tolerance 1e-6 is Tol units.    *)
(* Money (values, costs) is an integer number of units of $0.05.  A house  *)
(* edge is a fraction in the probability units (One = 100%).  A quotient   *)
(* is rounded to the nearest unit.                                         *)
(*                                                                         *)
(* Objects.  A LootboxItem is a mutable object; pydantic (>= 2.0, as       *)
(* setup.py requires) keeps the item objects it is handed, so two          *)
(* Lootboxes built from the same item object share it.  The items the      *)
(* caller made live in `pool`; an item a Lootbox owns alone (made by       *)
(* from_dict or by an optimizer) is stored inline in the Lootbox.          *)
(***************************************************************************)
EXTENDS Integers, Sequences, FiniteSets, TLC

VARIABLES
    pool,       \* caller-made LootboxItem objects: id -> current probability
    boxes,      \* the Lootbox objects that exist: slot -> Lootbox or NoBox
    last,       \* what the last operation was given and what it delivered
    normalized, \* how many times normalize_probabilities has run
    rng,        \* the state of the process-wide generator of module random
    sims,       \* the MonteCarloSimulator objects: id -> seed given, items drawn
    ga          \* the genetic search in progress: its arguments and locals

dataVars == <<pool, boxes, normalized>>

simVars == <<rng, sims>>

vars == <<pool, boxes, last, normalized, rng, sims, ga>>

-----------------------------------------------------------------------------
(* Units and program constants *)

One == 10000000
Tol == 10
MinCost == 10
MaxCost == 20000

\* The longest item list a caller hands to a constructor.
MaxItems == 2

\* The number of normalize_probabilities calls a run makes.
MaxNormalize == 2

RarityTier == {"common", "uncommon", "rare", "epic", "legendary", "mythic"}

-----------------------------------------------------------------------------
(* Arithmetic helpers *)

Abs(x) == IF x < 0 THEN -x ELSE x

Min2(a, b) == IF a <= b THEN a ELSE b

Max2(a, b) == IF a >= b THEN a ELSE b

RECURSIVE MulQR(_, _, _)
\* <<q, r>> with a * b = q * c + r and 0 <= r < c, for a, b >= 0 and
\* 0 < c < 2^26, sixteen-fold so that no intermediate exceeds 32 bits.
MulQR(a, b, c) ==
    IF b = 0 THEN <<0, 0>>
    ELSE LET h == MulQR(a, b \div 16, c)
             r3 == 16 * h[2] + (b % 16) * (a % c)
             q3 == 16 * h[1] + (b % 16) * (a \div c)
         IN <<q3 + (r3 \div c), r3 % c>>

\* a * b / c rounded to the nearest unit.
MulDiv(a, b, c) ==
    LET h == MulQR(a, b, c)
    IN h[1] + (IF 2 * h[2] >= c THEN 1 ELSE 0)

RECURSIVE SeqSum(_)
SeqSum(s) == IF Len(s) = 0 THEN 0 ELSE Head(s) + SeqSum(Tail(s))

Range(s) == {s[i] : i \in DOMAIN s}

-----------------------------------------------------------------------------
(* LootboxItem and Lootbox objects *)

\* The LootboxItem objects the caller has made: name, value and rarity never
\* change after construction, the probability is the mutable field.
PoolItems == <<
    [name |-> "A", value |-> 2,  rarity |-> "common"],
    [name |-> "B", value |-> 10, rarity |-> "uncommon"],
    [name |-> "C", value |-> 80, rarity |-> "rare"] >>

ItemIds == DOMAIN PoolItems

\* The probabilities the caller gave them (each within [0, 1], as
\* LootboxItem's own validation demands): 0.5, 0.5 - 1e-6, 0.5 + 1e-6.
PoolInit == <<5000000, 4999990, 5000010>>

\* An item of a Lootbox: a reference to a caller-made object (ref > 0), or an
\* object the Lootbox owns alone (ref = 0, probability inline).
ItemRef(id) ==
    [ref |-> id, name |-> PoolItems[id].name, value |-> PoolItems[id].value,
     rarity |-> PoolItems[id].rarity, probability |-> 0]

OwnItem(name, value, rarity, probability) ==
    [ref |-> 0, name |-> name, value |-> value, rarity |-> rarity,
     probability |-> probability]

\* item.probability, read through the reference.
ProbOf(pl, item) == IF item.ref = 0 THEN item.probability ELSE pl[item.ref]

Probs(pl, items) == [i \in DOMAIN items |-> ProbOf(pl, items[i])]

NoBox == [exists |-> FALSE]

Slots == {1, 2}

\* LootboxItem's validators: probability within [0, 1], value positive,
\* rarity one of the tags.
validate_probability(v) == 0 <= v /\ v <= One

validate_value(v) == v > 0

LootboxItemOk(name, value, rarity, probability) ==
    /\ validate_value(value)
    /\ rarity \in RarityTier
    /\ validate_probability(probability)

\* validate_items without its check for duplicate names.
validate_items_NoNameCheck(pl, v) ==
    LET total_prob == SeqSum(Probs(pl, v))
    IN IF Len(v) = 0 THEN FALSE
       ELSE IF Abs(total_prob - One) > Tol THEN FALSE
       ELSE TRUE

\* Lootbox.validate_items; TRUE when it returns v, FALSE when it raises.
validate_items(pl, v) ==
    LET total_prob == SeqSum(Probs(pl, v))
        names == [i \in DOMAIN v |-> v[i].name]
    IN IF Len(v) = 0 THEN FALSE
       ELSE IF Abs(total_prob - One) > Tol THEN FALSE
       ELSE IF Len(names) # Cardinality(Range(names)) THEN FALSE
       ELSE TRUE

\* Lootbox.validate_cost; TRUE when it returns v, FALSE when it raises.
validate_cost(v) == MinCost <= v /\ v <= MaxCost

\* Lootbox(name=, cost=, items=): the field constraints (ge, le, min_items)
\* and then the field's validator; TRUE when the object is constructed.
LootboxOk(pl, cost, items) ==
    /\ cost >= MinCost /\ cost <= MaxCost /\ validate_cost(cost)
    /\ Len(items) >= 1 /\ validate_items(pl, items)

MkLootbox(name, cost, items) ==
    [exists |-> TRUE, name |-> name, cost |-> cost, items |-> items]

\* Lootbox.get_expected_value, in probability units times money units.
get_expected_value(pl, box) ==
    SeqSum([i \in DOMAIN box.items |->
                box.items[i].value * ProbOf(pl, box.items[i])])

\* Lootbox.get_house_edge: (cost - ev) / cost, in probability units.
get_house_edge(pl, box) ==
    LET ev == get_expected_value(pl, box)
    IN One - MulDiv(ev, 1, box.cost)

-----------------------------------------------------------------------------
(* Inputs of the data model's operations *)

\* Costs a caller passes: $0.45, $0.50, $2.00, $1000.00, $1000.05.
CostChoices == {9, 10, 40, 20000, 20001}

RECURSIVE SeqsUpTo(_, _)
\* The sequences over S of length at most n.
SeqsUpTo(S, n) ==
    IF n = 0 THEN {<<>>}
    ELSE LET shorter == SeqsUpTo(S, n - 1)
         IN shorter \cup {Append(s, x) : s \in shorter, x \in S}

\* Lists of caller-made item objects.
IdLists == SeqsUpTo(ItemIds, MaxItems)

\* The item lists of a caller who holds the first two item objects only.
PairLists == SeqsUpTo({1, 2}, MaxItems)

\* to_dict with the probabilities written to four decimals.
to_dict_FourDecimals(pl, box) ==
    [name |-> box.name, cost |-> box.cost,
     items |-> [i \in DOMAIN box.items |->
                  [name |-> box.items[i].name, value |-> box.items[i].value,
                   rarity |-> box.items[i].rarity,
                   probability |-> 1000 * MulDiv(ProbOf(pl, box.items[i]), 1, 1000)]]]

\* Lootbox.to_dict: the plain record of a Lootbox.
to_dict(pl, box) ==
    [name |-> box.name, cost |-> box.cost,
     items |-> [i \in DOMAIN box.items |->
                  [name |-> box.items[i].name, value |-> box.items[i].value,
                   rarity |-> box.items[i].rarity,
                   probability |-> ProbOf(pl, box.items[i])]]]

\* Records a caller reads from elsewhere: a well-formed one, one with a
\* non-positive value, one with a probability above 1, one with an unknown
\* rarity tag, one whose probabilities sum to 0.9.
RawDicts == {
    [name |-> "raw", cost |-> 40, items |-> <<
        [name |-> "A", value |-> 2, rarity |-> "common", probability |-> 7000000],
        [name |-> "B", value |-> 80, rarity |-> "rare", probability |-> 3000000]>>],
    [name |-> "raw", cost |-> 40, items |-> <<
        [name |-> "A", value |-> 0, rarity |-> "common", probability |-> One]>>],
    [name |-> "raw", cost |-> 40, items |-> <<
        [name |-> "A", value |-> 2, rarity |-> "common", probability |-> One + 1]>>],
    [name |-> "raw", cost |-> 40, items |-> <<
        [name |-> "A", value |-> 2, rarity |-> "ultra", probability |-> One]>>],
    [name |-> "raw", cost |-> 40, items |-> <<
        [name |-> "A", value |-> 2, rarity |-> "common", probability |-> 6000000],
        [name |-> "B", value |-> 80, rarity |-> "rare", probability |-> 3000000]>>] }

-----------------------------------------------------------------------------
(* Operations of the data model *)

\* Lootbox(name=, cost=, items=) on caller-made item objects; the caller keeps
\* the new object in `slot`.  A validation error leaves no object.
Construct(slot, cost, ids) ==
    LET items == [i \in DOMAIN ids |-> ItemRef(ids[i])]
        ok == LootboxOk(pool, cost, items)
        made == IF ok THEN MkLootbox("box", cost, items) ELSE NoBox
    IN /\ boxes' = IF ok THEN [boxes EXCEPT ![slot] = made] ELSE boxes
       /\ last' = [op |-> "Lootbox", slot |-> slot, cost |-> cost,
                   items |-> items, raised |-> ~ok, made |-> made]
       /\ UNCHANGED <<pool, normalized, simVars, ga>>

\* Lootbox.from_dict(data): a fresh LootboxItem per item record, then the
\* Lootbox constructor.
from_dict(pl, data) ==
    LET item_ok(d) == LootboxItemOk(d.name, d.value, d.rarity, d.probability)
        items == [i \in DOMAIN data.items |->
                    OwnItem(data.items[i].name, data.items[i].value,
                            data.items[i].rarity, data.items[i].probability)]
    IN IF \E i \in DOMAIN data.items : ~item_ok(data.items[i]) THEN NoBox
       ELSE IF ~LootboxOk(pl, data.cost, items) THEN NoBox
       ELSE MkLootbox(data.name, data.cost, items)

FromDict(slot, data) ==
    LET made == from_dict(pool, data)
    IN /\ boxes' = IF made.exists THEN [boxes EXCEPT ![slot] = made] ELSE boxes
       /\ last' = [op |-> "from_dict", slot |-> slot, data |-> data,
                   raised |-> ~made.exists, made |-> made]
       /\ UNCHANGED <<pool, normalized, simVars, ga>>

\* normalize_probabilities moving each probability half of the way only.
normalize_probabilities_Halfway(pl, box) ==
    LET total_prob == SeqSum(Probs(pl, box.items))
        np(i) == MulDiv(ProbOf(pl, box.items[i]), One + total_prob, 2 * total_prob)
    IN IF total_prob > 0
       THEN <<[id \in DOMAIN pl |->
                 IF \E i \in DOMAIN box.items : box.items[i].ref = id
                 THEN LET i == CHOOSE j \in DOMAIN box.items : box.items[j].ref = id
                      IN np(i)
                 ELSE pl[id]],
              [i \in DOMAIN box.items |->
                 IF box.items[i].ref = 0
                 THEN [box.items[i] EXCEPT !.probability = np(i)]
                 ELSE box.items[i]]>>
       ELSE <<pl, box.items>>

\* Lootbox.normalize_probabilities: the new probability of every item of
\* the box, as <<pool', items'>>.
normalize_probabilities(pl, box) ==
    LET total_prob == SeqSum(Probs(pl, box.items))
        np(i) == MulDiv(ProbOf(pl, box.items[i]), One, total_prob)
    IN IF total_prob > 0
       THEN <<[id \in DOMAIN pl |->
                 IF \E i \in DOMAIN box.items : box.items[i].ref = id
                 THEN LET i == CHOOSE j \in DOMAIN box.items : box.items[j].ref = id
                      IN np(i)
                 ELSE pl[id]],
              [i \in DOMAIN box.items |->
                 IF box.items[i].ref = 0
                 THEN [box.items[i] EXCEPT !.probability = np(i)]
                 ELSE box.items[i]]>>
       ELSE <<pl, box.items>>

Normalize(slot) ==
    /\ boxes[slot].exists
    /\ normalized < MaxNormalize
    /\ normalized' = normalized + 1
    /\ LET r == normalize_probabilities(pool, boxes[slot])
       IN /\ pool' = r[1]
          /\ boxes' = [boxes EXCEPT ![slot].items = r[2]]
    /\ last' = [op |-> "normalize_probabilities", slot |-> slot,
                before |-> Probs(pool, boxes[slot].items)]
    /\ UNCHANGED <<simVars, ga>>

\* The caller drops its reference to a Lootbox.
Drop(slot) ==
    /\ boxes[slot].exists
    /\ boxes' = [boxes EXCEPT ![slot] = NoBox]
    /\ last' = [op |-> "del", slot |-> slot]
    /\ UNCHANGED <<pool, normalized, simVars, ga>>

-----------------------------------------------------------------------------
(* The Monte Carlo simulator *)

\* The generator of module random is one object shared by the whole process.
\* It stands here as a full-period congruential generator of period RngPeriod;
\* random.random() steps it and returns the new state as a fraction of 1.
RngPeriod == 16

RngStates == 0 .. RngPeriod - 1

RngStep(s) == (5 * s + 3) % RngPeriod

\* random.seed(seed): the state depends on the seed alone.
RngSeed(seed) == (7 * seed + 1) % RngPeriod

\* The uniform number in [0, 1) a state stands for.
RngValue(s) == s * (One \div RngPeriod)

RECURSIVE RngCycleFrom(_, _)
RngCycleFrom(s, k) == IF k = 0 THEN <<>> ELSE <<s>> \o RngCycleFrom(RngStep(s), k - 1)

\* The generator's states in the order it visits them.
RngCycle == RngCycleFrom(0, RngPeriod)

\* The state after k calls of random.random().
RngAfter(s, k) ==
    LET at == CHOOSE i \in DOMAIN RngCycle : RngCycle[i] = s
    IN RngCycle[((at - 1 + k) % RngPeriod) + 1]

\* The k-th next uniform number.
RngDraw(s, k) == RngValue(RngAfter(s, k))

RngSkip(s, k) == RngAfter(s, k)

SimIds == {1, 2}

NoSeed == -1

SeedChoices == {NoSeed, 1, 2}

NoSim == [exists |-> FALSE]

\* The longest sequence of single openings kept for one simulator.
MaxDraws == 2

\* The number of bulk operations followed on one simulator.
MaxRuns == 1

RECURSIVE Scan(_, _, _, _)
\* The loop of simulate_single_opening from item i on, with the mass
\* accumulated before it: the index of the item returned, 0 when the loop
\* ends without returning.
Scan(probs, rand, i, cumulative_before) ==
    IF i > Len(probs) THEN 0
    ELSE LET cumulative_prob == cumulative_before + probs[i]
         IN IF rand <= cumulative_prob THEN i
            ELSE Scan(probs, rand, i + 1, cumulative_prob)

\* simulate_single_opening falling back to the first item.
simulate_single_opening_FirstOnMiss(probs, rand) ==
    LET hit == Scan(probs, rand, 1, 0)
    IN IF hit # 0 THEN hit ELSE 1

\* MonteCarloSimulator.simulate_single_opening for the uniform number rand:
\* the index of the item returned.
simulate_single_opening(probs, rand) ==
    LET hit == Scan(probs, rand, 1, 0)
    IN IF hit # 0 THEN hit ELSE Len(probs)

\* MonteCarloSimulator(seed): seeds the process-wide generator.
NewSimulator(i, seed) ==
    /\ sims' = [sims EXCEPT ![i] = [exists |-> TRUE, seed |-> seed, drawn |-> <<>>, runs |-> 0]]
    /\ rng' = IF seed # NoSeed THEN RngSeed(seed) ELSE rng
    /\ last' = [op |-> "MonteCarloSimulator", sim |-> i]
    /\ UNCHANGED <<dataVars, ga>>

\* simulator i draws one item from the Lootbox in slot 1.
SingleOpening(i) ==
    /\ sims[i].exists /\ boxes[1].exists
    /\ Len(sims[i].drawn) < MaxDraws
    /\ LET rand == RngValue(RngStep(rng))
           item == simulate_single_opening(Probs(pool, boxes[1].items), rand)
       IN /\ sims' = [sims EXCEPT ![i].drawn = Append(@, item)]
          /\ last' = [op |-> "simulate_single_opening", sim |-> i,
                      rand |-> rand, item |-> item]
    /\ rng' = RngStep(rng)
    /\ UNCHANGED <<dataVars, ga>>

\* Uniform numbers of [0, 1) that random.random() can return: both ends of
\* the range, the cumulative sums of the Lootboxes here and their neighbours.
UniformChoices ==
    {0, 1, 2500000, 4999999, 5000000, 5000001, 7500000, 9800000, 9800001,
     9999989, 9999990, 9999991, One - 1}

\* simulate_single_opening on simulator i, random.random() returning rand.
SingleOpeningAt(i, rand) ==
    /\ sims[i].exists /\ boxes[1].exists
    /\ Len(sims[i].drawn) < MaxDraws
    /\ LET item == simulate_single_opening(Probs(pool, boxes[1].items), rand)
       IN /\ sims' = [sims EXCEPT ![i].drawn = Append(@, item)]
          /\ last' = [op |-> "simulate_single_opening", sim |-> i,
                      rand |-> rand, item |-> item]
    /\ rng' = RngStep(rng)
    /\ UNCHANGED <<dataVars, ga>>

-----------------------------------------------------------------------------
(* The simulator's bulk operations *)

\* The Lootboxes the simulator is run on: the five-item box of the end-to-end
\* scenario; an even win-or-lose box; a box whose first item has probability
\* 0 and whose probabilities sum to 1 - 1e-6.
SimBoxes == {
    MkLootbox("scenario", 40, <<
        OwnItem("A", 2, "common", 5000000), OwnItem("B", 10, "uncommon", 2500000),
        OwnItem("C", 30, "rare", 1500000), OwnItem("D", 80, "epic", 800000),
        OwnItem("E", 240, "legendary", 200000)>>),
    MkLootbox("even", 10, <<
        OwnItem("L", 2, "common", 5000000), OwnItem("W", 20, "rare", 5000000)>>),
    MkLootbox("short", 10, <<
        OwnItem("Z", 240, "legendary", 0), OwnItem("W", 20, "rare", 5000000),
        OwnItem("L", 2, "common", 4999990)>>) }

\* The draw counts a caller asks for.
\* The draw counts a caller asks a confidence interval for.
DrawCounts == {0, 999, 1000, 2000}

\* The largest draw count of a simulation and of a streak analysis.
MaxSimulations == 4

batch_size == 1000

RECURSIVE Tabulate(_, _, _)
\* The sequence <<F(lo), ..., F(hi)>>: short runs directly, long ones by
\* halves.
Tabulate(F(_), lo, hi) ==
    IF hi - lo < 32 THEN [k \in 1 .. (hi - lo + 1) |-> F(lo + k - 1)]
    ELSE LET mid == (lo + hi) \div 2
         IN Tabulate(F, lo, mid) \o Tabulate(F, mid + 1, hi)

RECURSIVE SumFn(_, _, _)
\* f[lo] + ... + f[hi], by quarters.
SumFn(f, lo, hi) ==
    IF hi - lo < 4
    THEN (IF lo <= hi THEN f[lo] ELSE 0) + (IF lo + 1 <= hi THEN f[lo + 1] ELSE 0)
           + (IF lo + 2 <= hi THEN f[lo + 2] ELSE 0)
           + (IF lo + 3 <= hi THEN f[lo + 3] ELSE 0)
    ELSE LET q == (hi - lo + 1) \div 4
         IN SumFn(f, lo, lo + q - 1) + SumFn(f, lo + q, lo + 2 * q - 1)
              + SumFn(f, lo + 2 * q, lo + 3 * q - 1) + SumFn(f, lo + 3 * q, hi)

\* The integer square root.
ISqrt(x) == CHOOSE r \in 0 .. 46340 : r * r <= x /\ x < (r + 1) * (r + 1)

\* The r-th smallest of a non-empty sequence of numbers.
ValueAtRank(vals, r) ==
    CHOOSE v \in Range(vals) :
        /\ Cardinality({k \in DOMAIN vals : vals[k] < v}) < r
        /\ r <= Cardinality({k \in DOMAIN vals : vals[k] <= v})

\* statistics.median of a non-empty sequence.
Median(vals) ==
    LET n == Len(vals)
    IN IF n % 2 = 1 THEN ValueAtRank(vals, (n + 1) \div 2)
       ELSE MulDiv(ValueAtRank(vals, n \div 2) + ValueAtRank(vals, n \div 2 + 1), 1, 2)

\* statistics.stdev of a sequence of two or more values.
Stdev(vals) ==
    LET n == Len(vals)
        total == SumFn(vals, 1, n)
        squares == SumFn([k \in DOMAIN vals |-> vals[k] * vals[k]], 1, n)
    IN ISqrt(MulDiv(squares - MulDiv(total, total, n), 1, n - 1))

\* MonteCarloSimulator._get_value_bin.
get_value_bin(value) ==
    IF value < 5 THEN "$0.00-$0.25"
    ELSE IF value < 10 THEN "$0.25-$0.50"
    ELSE IF value < 20 THEN "$0.50-$1.00"
    ELSE IF value < 40 THEN "$1.00-$2.00"
    ELSE IF value < 100 THEN "$2.00-$5.00"
    ELSE IF value < 200 THEN "$5.00-$10.00"
    ELSE IF value < 500 THEN "$10.00-$25.00"
    ELSE IF value < 1000 THEN "$25.00-$50.00"
    ELSE IF value < 2000 THEN "$50.00-$100.00"
    ELSE "$100.00+"

\* The items n successive single openings return from generator state s.
Openings(pl, box, s, n) ==
    LET probs == Probs(pl, box.items)
        opening(k) == simulate_single_opening(probs, RngDraw(s, k))
    IN Tabulate(opening, 1, n)

\* simulate_multiple_openings with the cost of one opening as the total cost.
simulate_multiple_openings_OneCost(pl, box, s, num_simulations) ==
    LET obtained_items == Openings(pl, box, s, num_simulations)
        value_of(k) == box.items[obtained_items[k]].value
        obtained_values == Tabulate(value_of, 1, num_simulations)
        rarities == {box.items[obtained_items[k]].rarity : k \in 1 .. num_simulations}
        bin_of(k) == get_value_bin(obtained_values[k])
        obtained_bins == Tabulate(bin_of, 1, num_simulations)
        bins == Range(obtained_bins)
        rarity_counts ==
            [r \in rarities |->
                Cardinality({k \in 1 .. num_simulations :
                                box.items[obtained_items[k]].rarity = r})]
        value_counts ==
            [b \in bins |->
                Cardinality({k \in 1 .. num_simulations : obtained_bins[k] = b})]
        total_cost == box.cost
        total_value == SumFn(obtained_values, 1, num_simulations)
        profitable_outcomes ==
            Cardinality({k \in 1 .. num_simulations : obtained_values[k] > box.cost})
        break_even_outcomes ==
            Cardinality({k \in 1 .. num_simulations : obtained_values[k] >= box.cost})
    IN IF num_simulations = 0
       THEN \* statistics.mean of no data raises StatisticsError
            [raised |-> TRUE]
       ELSE [raised |-> FALSE,
             result |->
               [num_simulations |-> num_simulations,
                total_cost |-> total_cost,
                total_value_received |-> total_value,
                average_value_per_box |-> MulDiv(total_value, 1, num_simulations),
                median_value_per_box |-> Median(obtained_values),
                std_deviation |->
                    IF Len(obtained_values) > 1 THEN Stdev(obtained_values) ELSE 0,
                profit_probability |->
                    MulDiv(profitable_outcomes, One, num_simulations),
                break_even_probability |->
                    MulDiv(break_even_outcomes, One, num_simulations),
                house_edge_actual |-> One - MulDiv(total_value, One, total_cost),
                house_edge_theoretical |-> get_house_edge(pl, box),
                value_distribution |-> value_counts,
                rarity_distribution |-> rarity_counts]]

\* MonteCarloSimulator.simulate_multiple_openings from generator state s:
\* whether it raises, and the SimulationResult when it does not.
simulate_multiple_openings(pl, box, s, num_simulations) ==
    LET obtained_items == Openings(pl, box, s, num_simulations)
        value_of(k) == box.items[obtained_items[k]].value
        obtained_values == Tabulate(value_of, 1, num_simulations)
        rarities == {box.items[obtained_items[k]].rarity : k \in 1 .. num_simulations}
        bin_of(k) == get_value_bin(obtained_values[k])
        obtained_bins == Tabulate(bin_of, 1, num_simulations)
        bins == Range(obtained_bins)
        rarity_counts ==
            [r \in rarities |->
                Cardinality({k \in 1 .. num_simulations :
                                box.items[obtained_items[k]].rarity = r})]
        value_counts ==
            [b \in bins |->
                Cardinality({k \in 1 .. num_simulations : obtained_bins[k] = b})]
        total_cost == num_simulations * box.cost
        total_value == SumFn(obtained_values, 1, num_simulations)
        profitable_outcomes ==
            Cardinality({k \in 1 .. num_simulations : obtained_values[k] > box.cost})
        break_even_outcomes ==
            Cardinality({k \in 1 .. num_simulations : obtained_values[k] >= box.cost})
    IN IF num_simulations = 0
       THEN \* statistics.mean of no data raises StatisticsError
            [raised |-> TRUE]
       ELSE [raised |-> FALSE,
             result |->
               [num_simulations |-> num_simulations,
                total_cost |-> total_cost,
                total_value_received |-> total_value,
                average_value_per_box |-> MulDiv(total_value, 1, num_simulations),
                median_value_per_box |-> Median(obtained_values),
                std_deviation |->
                    IF Len(obtained_values) > 1 THEN Stdev(obtained_values) ELSE 0,
                profit_probability |->
                    MulDiv(profitable_outcomes, One, num_simulations),
                break_even_probability |->
                    MulDiv(break_even_outcomes, One, num_simulations),
                house_edge_actual |-> One - MulDiv(total_value, One, total_cost),
                house_edge_theoretical |-> get_house_edge(pl, box),
                value_distribution |-> value_counts,
                rarity_distribution |-> rarity_counts]]

RECURSIVE StreakLoop(_, _, _)
\* The loop of analyze_streak_patterns over outcomes[i ..], from the loop
\* state st: the runs closed so far, the current run and whether there is one.
StreakLoop(outcomes, i, st) ==
    IF i > Len(outcomes) THEN st
    ELSE LET outcome == outcomes[i]
             next ==
               IF ~st.started
               THEN [st EXCEPT !.started = TRUE, !.current_is_win = outcome,
                               !.current_streak = 1]
               ELSE IF outcome = st.current_is_win
               THEN [st EXCEPT !.current_streak = @ + 1]
               ELSE [started |-> TRUE,
                     win_streaks |-> IF st.current_is_win
                                     THEN Append(st.win_streaks, st.current_streak)
                                     ELSE st.win_streaks,
                     loss_streaks |-> IF st.current_is_win
                                      THEN st.loss_streaks
                                      ELSE Append(st.loss_streaks, st.current_streak),
                     current_is_win |-> outcome,
                     current_streak |-> 1]
         IN StreakLoop(outcomes, i + 1, next)

\* The runs counted by the loop alone, the final run left out.
Streaks_NoFinalStreak(outcomes) ==
    LET st == StreakLoop(outcomes, 1,
                  [started |-> FALSE, win_streaks |-> <<>>, loss_streaks |-> <<>>,
                   current_is_win |-> FALSE, current_streak |-> 0])
    IN [win_streaks |-> st.win_streaks, loss_streaks |-> st.loss_streaks]

\* The runs analyze_streak_patterns counts: the loop, then the final run.
Streaks(outcomes) ==
    LET st == StreakLoop(outcomes, 1,
                  [started |-> FALSE, win_streaks |-> <<>>, loss_streaks |-> <<>>,
                   current_is_win |-> FALSE, current_streak |-> 0])
    IN IF st.started
       THEN IF st.current_is_win
            THEN [win_streaks |-> Append(st.win_streaks, st.current_streak),
                  loss_streaks |-> st.loss_streaks]
            ELSE [win_streaks |-> st.win_streaks,
                  loss_streaks |-> Append(st.loss_streaks, st.current_streak)]
       ELSE [win_streaks |-> st.win_streaks, loss_streaks |-> st.loss_streaks]

SeqMax(vals) == CHOOSE v \in Range(vals) : \A w \in Range(vals) : w <= v

\* MonteCarloSimulator.analyze_streak_patterns with the default threshold (the
\* cost); averages are in thousandths of a draw.
analyze_streak_patterns(pl, box, s, num_simulations) ==
    LET min_value_threshold == box.cost
        items == Openings(pl, box, s, num_simulations)
        outcome_of(k) == box.items[items[k]].value >= min_value_threshold
        outcomes == Tabulate(outcome_of, 1, num_simulations)
        runs == Streaks(outcomes)
        wins == Cardinality({k \in 1 .. num_simulations : outcomes[k]})
        mean(xs) == MulDiv(SumFn(xs, 1, Len(xs)), 1000, Len(xs))
    IN IF Len(outcomes) = 0
       THEN \* sum(outcomes) / len(outcomes) raises ZeroDivisionError
            [raised |-> TRUE]
       ELSE [raised |-> FALSE,
             result |->
               [outcomes |-> outcomes,
                total_wins |-> wins,
                total_losses |-> Len(outcomes) - wins,
                win_rate |-> MulDiv(wins, One, Len(outcomes)),
                max_win_streak |->
                    IF runs.win_streaks # <<>> THEN SeqMax(runs.win_streaks) ELSE 0,
                max_loss_streak |->
                    IF runs.loss_streaks # <<>> THEN SeqMax(runs.loss_streaks) ELSE 0,
                avg_win_streak |->
                    IF runs.win_streaks # <<>> THEN mean(runs.win_streaks) ELSE 0,
                avg_loss_streak |->
                    IF runs.loss_streaks # <<>> THEN mean(runs.loss_streaks) ELSE 0,
                win_streaks |-> runs.win_streaks,
                loss_streaks |-> runs.loss_streaks,
                num_win_streaks |-> Len(runs.win_streaks),
                num_loss_streaks |-> Len(runs.loss_streaks)]]

\* numpy.percentile (linear interpolation) of a non-empty sequence, q in
\* thousandths.
Percentile(vals, q) ==
    LET n == Len(vals)
        pos == (n - 1) * q
        i == pos \div 1000 + 1
        lo == ValueAtRank(vals, i)
        hi == ValueAtRank(vals, Min2(i + 1, n))
    IN lo + MulDiv(hi - lo, pos % 1000, 1000)

\* MonteCarloSimulator.calculate_confidence_intervals at the default confidence
\* level 0.95, from generator state s: the outcomes it can have.  With no
\* batch, numpy.percentile is handed an empty list: depending on the numpy
\* build it raises IndexError or returns nan.
calculate_confidence_intervals(pl, box, s, num_simulations) ==
    LET num_batches == num_simulations \div batch_size
        batch(b) == simulate_multiple_openings(
                        pl, box, RngSkip(s, (b - 1) * batch_size), batch_size).result
        batches == Tabulate(batch, 1, num_batches)
        expected_values == [b \in 1 .. num_batches |-> batches[b].average_value_per_box]
        house_edges == [b \in 1 .. num_batches |-> batches[b].house_edge_actual]
        std_deviations == [b \in 1 .. num_batches |-> batches[b].std_deviation]
        profit_probabilities ==
            [b \in 1 .. num_batches |-> batches[b].profit_probability]
        interval(values) == <<Percentile(values, 25), Percentile(values, 975)>>
    IN IF num_batches = 0
       THEN {[raised |-> TRUE], [raised |-> FALSE, result |-> [nan |-> TRUE]]}
       ELSE {[raised |-> FALSE,
              result |-> [nan |-> FALSE,
                          expected_values |-> interval(expected_values),
                          house_edges |-> interval(house_edges),
                          std_deviations |-> interval(std_deviations),
                          profit_probabilities |-> interval(profit_probabilities)]]}

SimulateMultiple(i, n) ==
    /\ sims[i].exists /\ boxes[1].exists
    /\ sims[i].runs < MaxRuns
    /\ last' = [op |-> "simulate_multiple_openings", sim |-> i, n |-> n, from |-> rng,
                out |-> simulate_multiple_openings(pool, boxes[1], rng, n)]
    /\ rng' = RngSkip(rng, n)
    /\ sims' = [sims EXCEPT ![i].runs = @ + 1]
    /\ UNCHANGED <<dataVars, ga>>

AnalyzeStreaks(i, n) ==
    /\ sims[i].exists /\ boxes[1].exists
    /\ sims[i].runs < MaxRuns
    /\ last' = [op |-> "analyze_streak_patterns", sim |-> i, n |-> n, from |-> rng,
                out |-> analyze_streak_patterns(pool, boxes[1], rng, n)]
    /\ rng' = RngSkip(rng, n)
    /\ sims' = [sims EXCEPT ![i].runs = @ + 1]
    /\ UNCHANGED <<dataVars, ga>>

ConfidenceIntervals(i, n) ==
    /\ sims[i].exists /\ boxes[1].exists
    /\ sims[i].runs < MaxRuns
    /\ \E out \in calculate_confidence_intervals(pool, boxes[1], rng, n) :
         last' = [op |-> "calculate_confidence_intervals", sim |-> i, n |-> n,
                  from |-> rng, out |-> out]
    /\ rng' = RngSkip(rng, (n \div batch_size) * batch_size)
    /\ sims' = [sims EXCEPT ![i].runs = @ + 1]
    /\ UNCHANGED <<dataVars, ga>>

-----------------------------------------------------------------------------
(* The gradient optimizer *)

\* OptimizationConstraints(): the default tier maps.
DefaultConstraints ==
    [min_probability_per_tier |->
        [common |-> 3000000, uncommon |-> 1000000, rare |-> 100000,
         epic |-> 10000, legendary |-> 1000, mythic |-> 100],
     max_probability_per_tier |->
        [common |-> 8000000, uncommon |-> 4000000, rare |-> 1000000,
         epic |-> 500000, legendary |-> 100000, mythic |-> 10000]]

\* OptimizationConstraints.validate_tier_probabilities; TRUE when it returns.
validate_tier_probabilities(v) == \A tier \in DOMAIN v : 0 <= v[tier] /\ v[tier] <= One

\* The constraints a caller passes: the defaults; a common tier with its
\* minimum above its maximum; a common tier of at least 0.6; empty maps.
ConstraintChoices == {
    DefaultConstraints,
    [min_probability_per_tier |-> [common |-> 8000000, uncommon |-> 1000000],
     max_probability_per_tier |-> [common |-> 3000000, uncommon |-> 4000000]],
    [min_probability_per_tier |-> [common |-> 6000000, uncommon |-> 1000000],
     max_probability_per_tier |-> [common |-> 8000000, uncommon |-> 4000000]],
    [min_probability_per_tier |-> <<>>, max_probability_per_tier |-> <<>>] }

\* constraints.min_probability_per_tier.get(rarity_key, 0.0) and
\* constraints.max_probability_per_tier.get(rarity_key, 1.0).
min_prob(constraints, rarity_key) ==
    IF rarity_key \in DOMAIN constraints.min_probability_per_tier
    THEN constraints.min_probability_per_tier[rarity_key] ELSE 0

max_prob(constraints, rarity_key) ==
    IF rarity_key \in DOMAIN constraints.max_probability_per_tier
    THEN constraints.max_probability_per_tier[rarity_key] ELSE One

\* The target house edges a caller asks for: -0.2, 0, 0.15, 0.2, 0.5, 1.
TargetChoices == {-2000000, 0, 1500000, 2000000, 5000000, One}

\* The Lootboxes handed to the optimizer: two common items; one item of
\* each of three tiers; a single item.
OptBoxes == {
    MkLootbox("pair", 40, <<
        OwnItem("A", 20, "common", 5000000), OwnItem("B", 60, "common", 5000000)>>),
    MkLootbox("mixed", 40, <<
        OwnItem("A", 10, "common", 6000000), OwnItem("B", 50, "uncommon", 3000000),
        OwnItem("C", 90, "rare", 1000000)>>),
    MkLootbox("single", 40, <<OwnItem("A", 20, "common", One)>>) }

\* f"{lootbox.name} (Optimized)".
OptimizedName(name) ==
    CASE name = "pair" -> "pair (Optimized)"
      [] name = "mixed" -> "mixed (Optimized)"
      [] name = "single" -> "single (Optimized)"
      [] OTHER -> "Temp Box (Optimized)"

\* The probability vectors the solver is followed on: multiples of 0.05.
GridStep == One \div 20

GridPoints == {k * GridStep : k \in 0 .. One \div GridStep}

\* The house edge the objective computes for the vector x.
ObjectiveHouseEdge(item_values, cost, x) ==
    LET expected_value == SumFn([i \in DOMAIN x |-> x[i] * item_values[i]], 1, Len(x))
    IN One - MulDiv(expected_value, 1, cost)

\* objective ignoring the target.
objective_NoTarget(item_values, cost, target_house_edge, x) ==
    Abs(ObjectiveHouseEdge(item_values, cost, x))

\* The optimizer's objective, as the distance |house_edge - target| whose
\* square the code minimizes (the square has the same minimizers).
objective(item_values, cost, target_house_edge, x) ==
    Abs(ObjectiveHouseEdge(item_values, cost, x) - target_house_edge)

RECURSIVE WithinBounds(_, _, _, _)
\* The grid vectors of length n that sum to total, every entry within its
\* bounds.
WithinBounds(lb, ub, n, total) ==
    IF n = 0 THEN IF total = 0 THEN {<<>>} ELSE {}
    ELSE UNION {{Append(x, g) : x \in WithinBounds(lb, ub, n - 1, total - g)} :
                   g \in {h \in GridPoints : lb[n] <= h /\ h <= ub[n] /\ h <= total}}

\* The vectors within the bounds that sum to 1.
FeasibleSet(lb, ub) == WithinBounds(lb, ub, Len(lb), One)

\* scipy.optimize.minimize(objective, initial_probs, method='SLSQP', bounds,
\* constraints): the outcomes the call can have.  SLSQP raises ValueError for
\* a lower bound above its upper bound.  Otherwise it reports failure (x at
\* the start clipped into the bounds), or success at a minimizer of the
\* objective over the feasible set, or success at the clipped start.  An
\* exact solver succeeds at a minimizer whenever the feasible set is not
\* empty and reports failure otherwise.
minimize(item_values, cost, target_house_edge, lb, ub, initial_probs, exact) ==
    LET feasible == FeasibleSet(lb, ub)
        value(x) == objective(item_values, cost, target_house_edge, x)
        values == {value(x) : x \in feasible}
        least == CHOOSE v \in values : \A w \in values : v <= w
        best == {x \in feasible : value(x) = least}
        clipped == [i \in DOMAIN initial_probs |->
                       Max2(lb[i], Min2(ub[i], initial_probs[i]))]
        failure == [raised |-> FALSE, success |-> FALSE, x |-> clipped,
                    nit |-> 1, message |-> "Positive directional derivative"]
        success(x) == [raised |-> FALSE, success |-> TRUE, x |-> x,
                       nit |-> 2, message |-> "Optimization terminated successfully"]
    IN IF \E i \in DOMAIN lb : lb[i] > ub[i]
       THEN {[raised |-> TRUE, message |-> "SLSQP Error: lb > ub in bounds"]}
       ELSE IF exact
       THEN IF feasible = {} THEN {failure} ELSE {success(x) : x \in best}
       ELSE {failure, success(clipped)} \cup {success(x) : x \in best}

\* The OptimizationResult of a search that did not succeed.
FailedResult(original_he, original_ev, message, iterations) ==
    [raised |-> FALSE,
     success |-> FALSE,
     optimized_lootbox |-> NoBox,
     original_house_edge |-> original_he,
     optimized_house_edge |-> original_he,
     original_expected_value |-> original_ev,
     optimized_expected_value |-> original_ev,
     optimization_message |-> message,
     iterations |-> iterations]

\* The optimized items with the list built back to front: the i-th
\* probability lands on the i-th item from the end.
OptimizedItems_Reversed(lootbox, x) ==
    [i \in DOMAIN lootbox.items |->
        LET item == lootbox.items[Len(lootbox.items) + 1 - i]
        IN OwnItem(item.name, item.value, item.rarity, x[i])]

\* The optimized Lootbox built from result.x, and whether its construction
\* (every LootboxItem, then the Lootbox) goes through.
OptimizedItems(lootbox, x) ==
    [i \in DOMAIN lootbox.items |->
        OwnItem(lootbox.items[i].name, lootbox.items[i].value,
                lootbox.items[i].rarity, x[i])]

OptimizedOk(pl, lootbox, x) ==
    LET optimized_items == OptimizedItems(lootbox, x)
    IN /\ \A i \in DOMAIN optimized_items :
            LootboxItemOk(optimized_items[i].name, optimized_items[i].value,
                          optimized_items[i].rarity, optimized_items[i].probability)
       /\ LootboxOk(pl, lootbox.cost, optimized_items)

SuccessResult(pl, lootbox, original_he, original_ev, result) ==
    LET optimized_lootbox ==
            MkLootbox(OptimizedName(lootbox.name), lootbox.cost,
                      OptimizedItems(lootbox, result.x))
    IN [raised |-> FALSE,
        success |-> TRUE,
        optimized_lootbox |-> optimized_lootbox,
        original_house_edge |-> original_he,
        optimized_house_edge |-> get_house_edge(pl, optimized_lootbox),
        original_expected_value |-> original_ev,
        optimized_expected_value |-> get_expected_value(pl, optimized_lootbox),
        optimization_message |-> "Successfully optimized",
        iterations |-> result.nit]

\* The problem optimize_for_house_edge hands to the solver.
lower_bounds(lootbox, constraints) ==
    [i \in DOMAIN lootbox.items |-> min_prob(constraints, lootbox.items[i].rarity)]

upper_bounds(lootbox, constraints) ==
    [i \in DOMAIN lootbox.items |-> max_prob(constraints, lootbox.items[i].rarity)]

SolverOutcomes(pl, lootbox, target_house_edge, constraints, exact) ==
    minimize([i \in DOMAIN lootbox.items |-> lootbox.items[i].value], lootbox.cost,
             target_house_edge, lower_bounds(lootbox, constraints),
             upper_bounds(lootbox, constraints), Probs(pl, lootbox.items), exact)

\* optimize_for_house_edge with the try block closed after minimize: an
\* exception while building the optimized Lootbox propagates.
optimize_for_house_edge_BuildOutsideTry(pl, lootbox, result) ==
    LET original_ev == get_expected_value(pl, lootbox)
        original_he == get_house_edge(pl, lootbox)
    IN IF result.raised
       THEN FailedResult(original_he, original_ev, "Optimization error", 0)
       ELSE IF result.success
       THEN IF OptimizedOk(pl, lootbox, result.x)
            THEN SuccessResult(pl, lootbox, original_he, original_ev, result)
            ELSE [raised |-> TRUE]
       ELSE FailedResult(original_he, original_ev, "Optimization failed", result.nit)

\* ProbabilityOptimizer.optimize_for_house_edge, given what minimize did:
\* everything from the call of minimize on is inside the try block.
optimize_for_house_edge(pl, lootbox, result) ==
    LET original_ev == get_expected_value(pl, lootbox)
        original_he == get_house_edge(pl, lootbox)
    IN IF result.raised
       THEN FailedResult(original_he, original_ev, "Optimization error", 0)
       ELSE IF result.success
       THEN IF OptimizedOk(pl, lootbox, result.x)
            THEN SuccessResult(pl, lootbox, original_he, original_ev, result)
            ELSE FailedResult(original_he, original_ev, "Optimization error", 0)
       ELSE FailedResult(original_he, original_ev, "Optimization failed", result.nit)

OptimizeForHouseEdge(target_house_edge, constraints, exact) ==
    /\ boxes[1].exists
    /\ \E result \in SolverOutcomes(pool, boxes[1], target_house_edge, constraints, exact) :
         last' = [op |-> "optimize_for_house_edge",
                  target_house_edge |-> target_house_edge,
                  constraints |-> constraints,
                  solver |-> result,
                  out |-> optimize_for_house_edge(pool, boxes[1], result)]
    /\ UNCHANGED <<dataVars, simVars, ga>>

\* The cost ranges a caller sweeps: $0.50-$5.00, $2.00-$2.00, $0.05-$0.50,
\* $999.55-$1000.00, $1000.00-$1000.45.
CostRanges == {<<10, 100>>, <<40, 40>>, <<1, 10>>, <<19991, 20000>>, <<20000, 20009>>}

\* ProbabilityOptimizer.optimize_for_cost_range, the solver exact and its
\* choice among minimizers a fixed one: whether it raises, and the list of
\* results when it does not.  The temporary Lootbox of each cost point is
\* built outside any try block.
optimize_for_cost_range(pl, items, min_cost, max_cost, target_house_edge, constraints) ==
    LET cost_points == [i \in 1 .. 10 |-> min_cost + MulDiv(i - 1, max_cost - min_cost, 9)]
        equal_prob == MulDiv(One, 1, Len(items))
        temp_items == [k \in DOMAIN items |->
                          OwnItem(items[k].name, items[k].value, items[k].rarity,
                                  equal_prob)]
        temp_ok(cost) ==
            /\ \A k \in DOMAIN temp_items :
                 LootboxItemOk(temp_items[k].name, temp_items[k].value,
                               temp_items[k].rarity, temp_items[k].probability)
            /\ LootboxOk(pl, cost, temp_items)
        point(i) ==
            LET temp_lootbox == MkLootbox("Temp Box", cost_points[i], temp_items)
                outcomes == SolverOutcomes(pl, temp_lootbox, target_house_edge,
                                           constraints, TRUE)
            IN optimize_for_house_edge(pl, temp_lootbox, CHOOSE r \in outcomes : TRUE)
    IN IF \E i \in DOMAIN cost_points : ~temp_ok(cost_points[i])
       THEN [raised |-> TRUE, cost_points |-> cost_points]
       ELSE [raised |-> FALSE, cost_points |-> cost_points,
             results |-> Tabulate(point, 1, 10)]

OptimizeForCostRange(range, target_house_edge, constraints) ==
    /\ boxes[1].exists
    /\ last' = [op |-> "optimize_for_cost_range",
                min_cost |-> range[1], max_cost |-> range[2],
                target_house_edge |-> target_house_edge,
                constraints |-> constraints,
                out |-> optimize_for_cost_range(pool, boxes[1].items, range[1],
                                                range[2], target_house_edge,
                                                constraints)]
    /\ UNCHANGED <<dataVars, simVars, ga>>

-----------------------------------------------------------------------------
(* The genetic search *)

\* No genetic_algorithm_optimization call is in progress.
NoSearch == [phase |-> "idle"]

\* The largest generations argument.
MaxGenerations == 2

\* The population_size arguments.
PopulationSizes == {1, 2, 3}

\* The item lists handed to the genetic search.
GAItemLists == {box.items : box \in {b \in OptBoxes : b.name \in {"pair", "single"}}}

\* np.random.exponential(1.0, n_items) divided by its sum: the vectors
\* followed.
InitialDraws(n_items) ==
    IF n_items = 1 THEN {<<One>>}
    ELSE {[i \in 1 .. n_items |-> IF i = 1 THEN One - (n_items - 1) * w ELSE w] :
             w \in {One \div 10, One \div (2 * (n_items - 1))}}

\* np.random.normal(0, 0.01, n_items): the noise vectors followed, +-0.01
\* alternating.
NoiseDraws(n_items) ==
    {[i \in 1 .. n_items |-> IF i % 2 = 1 THEN d ELSE -d] : d \in {One \div 100, -(One \div 100)}}

\* probs / np.sum(probs), entry by entry.
Renormalize(probs) ==
    LET total == SumFn(probs, 1, Len(probs))
    IN [i \in DOMAIN probs |-> MulDiv(probs[i], One, total)]

\* One member of the initial population from the draw probs: clipped into
\* the bounds of each item's rarity, then renormalized.
InitialIndividual(items, constraints, probs) ==
    Renormalize([i \in DOMAIN items |->
        Min2(max_prob(constraints, items[i].rarity),
             Max2(min_prob(constraints, items[i].rarity), probs[i]))])

\* fitness(probabilities): -|house_edge - target_house_edge|.
fitness(item_values, cost, target_house_edge, probabilities) ==
    -Abs(ObjectiveHouseEdge(item_values, cost, probabilities) - target_house_edge)

\* np.argmax: the first index of the largest score.
ArgMax(scores) ==
    CHOOSE i \in DOMAIN scores :
        /\ \A j \in DOMAIN scores : scores[j] <= scores[i]
        /\ \A j \in DOMAIN scores : j < i => scores[j] < scores[i]

\* The members a tournament of three distinct members, drawn in any order,
\* can select: the first of the three with their largest score.
TournamentWinners(fitness_scores) ==
    LET population_size == Len(fitness_scores)
    IN {w \in 1 .. population_size :
          \E t \in SUBSET (1 .. population_size) :
             /\ Cardinality(t) = 3 /\ w \in t
             /\ \A j \in t : fitness_scores[j] <= fitness_scores[w]}

\* Single-point crossover of a and b at crossover_point, both children
\* renormalized.
Crossover(a, b, crossover_point) ==
    <<Renormalize([k \in DOMAIN a |-> IF k <= crossover_point THEN a[k] ELSE b[k]]),
      Renormalize([k \in DOMAIN a |-> IF k <= crossover_point THEN b[k] ELSE a[k]])>>

\* Mutation: noise added, clipped into [0.001, 1.0], renormalized.
Mutate(individual, noise) ==
    Renormalize([k \in DOMAIN individual |->
        Min2(One, Max2(One \div 1000, individual[k] + noise[k]))])

\* What mutation can make of an individual.
Mutations(individual, mutation_rate) ==
    {individual : x \in IF mutation_rate < One THEN {1} ELSE {}}
      \cup {Mutate(individual, noise) :
              noise \in IF mutation_rate > 0 THEN NoiseDraws(Len(individual)) ELSE {}}

\* What crossover (taken or not) and mutation can make of the neighbours a
\* and b, for n_items > 1.
PairOutcomes(a, b, mutation_rate) ==
    LET crossed == IF Len(a) = 1 THEN {}
                   ELSE {Crossover(a, b, cp) : cp \in 1 .. Len(a) - 1}
    IN UNION {{<<m1, m2>> : m1 \in Mutations(pr[1], mutation_rate),
                            m2 \in Mutations(pr[2], mutation_rate)} :
                 pr \in crossed \cup {<<a, b>>}}

RECURSIVE CrossoverAndMutation(_, _, _)
\* The loop "for i in range(0, population_size - 1, 2)" from the pair at
\* position i on (positions from 1): the populations it can leave.
CrossoverAndMutation(new_population, i, mutation_rate) ==
    IF i + 1 > Len(new_population) THEN {new_population}
    ELSE UNION {CrossoverAndMutation(
                    [new_population EXCEPT ![i] = pr[1], ![i + 1] = pr[2]],
                    i + 2, mutation_rate) :
                   pr \in PairOutcomes(new_population[i], new_population[i + 1],
                                       mutation_rate)}

\* np.random.randint(1, n_items) raises ValueError for n_items = 1: the
\* crossover of the first pair, when taken, ends the search.
CrossoverRaises(new_population) ==
    Len(new_population) >= 2 /\ Len(new_population[1]) = 1

\* genetic_algorithm_optimization is called: the population is initialized.
GAStart(items, cost, target_house_edge, population_size, generations, mutation_rate, constraints) ==
    /\ ga.phase = "idle"
    /\ \E draws \in [1 .. population_size -> InitialDraws(Len(items))] :
         ga' = [phase |-> "evolving",
                items |-> items, cost |-> cost,
                target_house_edge |-> target_house_edge,
                population_size |-> population_size,
                generations |-> generations,
                mutation_rate |-> mutation_rate,
                constraints |-> constraints,
                generation |-> 0,
                population |-> [k \in 1 .. population_size |->
                                   InitialIndividual(items, constraints, draws[k])],
                has_best |-> FALSE, best_individual |-> <<>>, best_fitness |-> 0]
    /\ last' = [op |-> "genetic_algorithm_optimization", phase |-> "called"]
    /\ UNCHANGED <<dataVars, simVars>>

\* One pass of "for generation in range(generations)".
GAGeneration ==
    /\ ga.phase = "evolving" /\ ga.generation < ga.generations
    /\ LET item_values == [i \in DOMAIN ga.items |-> ga.items[i].value]
           fitness_scores ==
               [k \in DOMAIN ga.population |->
                   fitness(item_values, ga.cost, ga.target_house_edge, ga.population[k])]
           gen_best_idx == ArgMax(fitness_scores)
           improved == ~ga.has_best \/ fitness_scores[gen_best_idx] > ga.best_fitness
           tracked == IF improved
                      THEN [ga EXCEPT !.has_best = TRUE,
                                      !.best_fitness = fitness_scores[gen_best_idx],
                                      !.best_individual = ga.population[gen_best_idx]]
                      ELSE ga
           raise == /\ ga' = [tracked EXCEPT !.phase = "raised"]
                    /\ last' = [op |-> "genetic_algorithm_optimization",
                                phase |-> "returned",
                                generations |-> ga.generations,
                                out |-> [raised |-> TRUE, error |-> "ValueError"]]
       IN IF ga.population_size < 3
          THEN \* np.random.choice(population_size, 3, replace=False)
               raise
          ELSE \E selected \in [1 .. ga.population_size ->
                                   TournamentWinners(fitness_scores)] :
                  LET new_population ==
                          [k \in 1 .. ga.population_size |-> ga.population[selected[k]]]
                  IN \/ CrossoverRaises(new_population) /\ raise
                     \/ \E population \in
                            CrossoverAndMutation(new_population, 1, ga.mutation_rate) :
                          /\ ga' = [tracked EXCEPT !.population = population,
                                                   !.generation = @ + 1]
                          /\ UNCHANGED last
    /\ UNCHANGED <<dataVars, simVars>>

\* The code after the loop: the optimized and the original Lootbox are built
\* (outside any try block) and the result is returned.
GAFinish ==
    /\ ga.phase = "evolving" /\ ga.generation = ga.generations
    /\ LET equal_prob == MulDiv(One, 1, Len(ga.items))
           with(probabilities) ==
               [i \in DOMAIN ga.items |->
                   OwnItem(ga.items[i].name, ga.items[i].value, ga.items[i].rarity,
                           probabilities[i])]
           built(items) ==
               /\ \A i \in DOMAIN items :
                    LootboxItemOk(items[i].name, items[i].value, items[i].rarity,
                                  items[i].probability)
               /\ LootboxOk(pool, ga.cost, items)
           optimized_items == with(ga.best_individual)
           original_items == with([i \in DOMAIN ga.items |-> equal_prob])
           optimized_lootbox == MkLootbox("GA Optimized Box", ga.cost, optimized_items)
           original_lootbox == MkLootbox("Original", ga.cost, original_items)
           out ==
               IF ~ga.has_best
               THEN \* best_individual is None: best_individual[i] raises
                    [raised |-> TRUE, error |-> "TypeError"]
               ELSE IF ~built(optimized_items) \/ ~built(original_items)
               THEN [raised |-> TRUE, error |-> "ValidationError"]
               ELSE [raised |-> FALSE,
                     success |-> TRUE,
                     optimized_lootbox |-> optimized_lootbox,
                     original_house_edge |-> get_house_edge(pool, original_lootbox),
                     optimized_house_edge |-> get_house_edge(pool, optimized_lootbox),
                     original_expected_value |->
                         get_expected_value(pool, original_lootbox),
                     optimized_expected_value |->
                         get_expected_value(pool, optimized_lootbox),
                     optimization_message |-> "Genetic algorithm completed",
                     iterations |-> ga.generations]
       IN /\ ga' = [ga EXCEPT !.phase = IF out.raised THEN "raised" ELSE "returned"]
          /\ last' = [op |-> "genetic_algorithm_optimization", phase |-> "returned",
                      generations |-> ga.generations, out |-> out]
    /\ UNCHANGED <<dataVars, simVars>>

-----------------------------------------------------------------------------
(* The cost solved from a target house edge *)

\* A cost computed by a division is carried in units of $0.05 / CostScale,
\* so that the quotient keeps five more digits than the costs a caller passes.
CostScale == 100000

\* The item values and probability lists a caller passes: the spec's instance
\* (EV = $1.70), the lists of the optimizer's boxes, a list that is not a
\* distribution, an all-zero list, and no items at all.
CostSolveInputs == {
    [item_values |-> <<20, 48>>, probabilities |-> <<5000000, 5000000>>],
    [item_values |-> <<20, 60>>, probabilities |-> <<5000000, 5000000>>],
    [item_values |-> <<10, 50, 90>>, probabilities |-> <<6000000, 3000000, 1000000>>],
    [item_values |-> <<20>>, probabilities |-> <<One>>],
    [item_values |-> <<20, 60>>, probabilities |-> <<2500000, 2500000>>],
    [item_values |-> <<20, 60>>, probabilities |-> <<0, 0>>],
    [item_values |-> <<>>, probabilities |-> <<>>] }

\* Target house edges: -0.2, 0, 0.15, 0.5, 1.0, 1.2.
CostTargets == {-2000000, 0, 1500000, 5000000, One, 12000000}

\* <<min_cost, max_cost>> in money units: the default [0.5, 4.0], [0, 4.0],
\* [2.0, 2.0], [2.5, 3.0], [1.0, 1.5] and the inverted [4.0, 0.5].
CostBounds == {<<10, 80>>, <<0, 80>>, <<40, 40>>, <<50, 60>>, <<20, 30>>, <<80, 10>>}

\* sum(item.value * prob for item, prob in zip(items, probabilities))
ZipExpectedValue(item_values, probabilities) ==
    SeqSum([i \in 1 .. Min2(Len(item_values), Len(probabilities)) |->
               item_values[i] * probabilities[i]])

\* find_optimal_cost without the clamp: the unclamped cost is returned.
find_optimal_cost_NoClamp(item_values, probabilities, target_house_edge, min_cost, max_cost) ==
    LET expected_value == ZipExpectedValue(item_values, probabilities)
        optimal_cost == MulDiv(expected_value, CostScale, One - target_house_edge)
    IN IF target_house_edge >= One
       THEN [cost |-> max_cost * CostScale, feasible |-> FALSE]
       ELSE IF min_cost * CostScale <= optimal_cost
               /\ optimal_cost <= max_cost * CostScale
       THEN [cost |-> optimal_cost, feasible |-> TRUE]
       ELSE [cost |-> optimal_cost, feasible |-> FALSE]

\* find_optimal_cost with the quotient turned into a product.
find_optimal_cost_Product(item_values, probabilities, target_house_edge, min_cost, max_cost) ==
    LET expected_value == ZipExpectedValue(item_values, probabilities)
        optimal_cost == MulDiv(expected_value, 1, One)
                          * ((One - target_house_edge) \div (One \div CostScale))
    IN IF target_house_edge >= One
       THEN [cost |-> max_cost * CostScale, feasible |-> FALSE]
       ELSE IF min_cost * CostScale <= optimal_cost
               /\ optimal_cost <= max_cost * CostScale
       THEN [cost |-> optimal_cost, feasible |-> TRUE]
       ELSE LET clamped_cost ==
                    Max2(min_cost * CostScale, Min2(max_cost * CostScale, optimal_cost))
            IN [cost |-> clamped_cost, feasible |-> FALSE]

\* ProbabilityOptimizer.find_optimal_cost: (optimal_cost, is_feasible), the
\* cost in units of $0.05 / CostScale.
find_optimal_cost(item_values, probabilities, target_house_edge, min_cost, max_cost) ==
    LET expected_value == ZipExpectedValue(item_values, probabilities)
        optimal_cost == MulDiv(expected_value, CostScale, One - target_house_edge)
    IN IF target_house_edge >= One
       THEN [cost |-> max_cost * CostScale, feasible |-> FALSE]
       ELSE IF min_cost * CostScale <= optimal_cost
               /\ optimal_cost <= max_cost * CostScale
       THEN [cost |-> optimal_cost, feasible |-> TRUE]
       ELSE LET clamped_cost ==
                    Max2(min_cost * CostScale, Min2(max_cost * CostScale, optimal_cost))
            IN [cost |-> clamped_cost, feasible |-> FALSE]

FindOptimalCost(input, target_house_edge, bounds) ==
    /\ last' = [op |-> "find_optimal_cost",
                item_values |-> input.item_values,
                probabilities |-> input.probabilities,
                target_house_edge |-> target_house_edge,
                min_cost |-> bounds[1], max_cost |-> bounds[2],
                out |-> find_optimal_cost(input.item_values, input.probabilities,
                                          target_house_edge, bounds[1], bounds[2])]
    /\ UNCHANGED <<dataVars, simVars, ga>>

-----------------------------------------------------------------------------
(* The other entry points that build a lootbox *)

\* What a user or a caller supplies to an entry point: a cost of $0.45,
\* $2.00 or $5.00, two items named alike or not, and probabilities that sum
\* to 1.0, to 1.0 + 9e-7, to 0.9, to 0.4, to 1.2 or to 0.
PolicyDicts ==
    {[name |-> "raw", cost |-> cost, items |-> <<
         [name |-> "A", value |-> 2, rarity |-> "common", probability |-> p[1]],
         [name |-> second, value |-> 80, rarity |-> "rare", probability |-> p[2]]>>] :
       cost \in {9, 40, 100}, second \in {"A", "B"},
       p \in {<<7000000, 3000000>>, <<7000009, 3000000>>, <<6000000, 3000000>>,
              <<2000000, 2000000>>, <<7000000, 5000000>>, <<0, 0>>}}

\* The items of a record as objects of their own.
ItemsOf(data) ==
    [i \in DOMAIN data.items |->
        OwnItem(data.items[i].name, data.items[i].value, data.items[i].rarity,
                data.items[i].probability)]

\* item.probability = item.probability / total_prob, for every item.
Rescaled(items, total_prob) ==
    [i \in DOMAIN items |->
        [items[i] EXCEPT !.probability = MulDiv(items[i].probability, One, total_prob)]]

\* The `create` command of the command line: the cost is asked within
\* [0.5, 4.0]; an item whose rarity choice or probability is refused at the
\* prompt is skipped; the probabilities are rescaled when they do not sum to
\* 1.0; then the core Lootbox is constructed.  Every exception from the
\* rescaling on is caught and reported.
create(pl, data) ==
    LET asked == ItemsOf(data)
        kept == SelectSeq(asked, LAMBDA it :
                    it.rarity \in RarityTier /\ 0 <= it.probability /\ it.probability <= One)
        total_prob == SeqSum(Probs(pl, kept))
        off == Abs(total_prob - One) > Tol
        items == IF off /\ total_prob # 0 THEN Rescaled(kept, total_prob) ELSE kept
        refused == [raised |-> FALSE, made |-> NoBox]
    IN IF ~(10 <= data.cost /\ data.cost <= 80) THEN refused
       ELSE IF \E i \in DOMAIN kept : ~validate_value(kept[i].value)
       THEN [raised |-> TRUE, made |-> NoBox]
       ELSE IF Len(kept) = 0 THEN refused
       ELSE IF off /\ total_prob = 0 THEN refused
       ELSE IF ~LootboxOk(pl, data.cost, items) THEN refused
       ELSE [raised |-> FALSE, made |-> MkLootbox(data.name, data.cost, items)]

Create(slot, data) ==
    LET out == create(pool, data)
    IN /\ boxes' = IF out.made.exists THEN [boxes EXCEPT ![slot] = out.made] ELSE boxes
       /\ last' = [op |-> "create", slot |-> slot, data |-> data,
                   raised |-> out.raised, made |-> out.made]
       /\ UNCHANGED <<pool, normalized, simVars, ga>>

\* The Lootbox dataclass of bin/lootbox_calculator.py: its items validate
\* themselves, __post_init__ checks the cost and rescales the probabilities
\* when they do not sum to 1.0.  It checks neither the names nor that there
\* is an item; rescaling a total of 0 divides by zero.
Lootbox_post_init(pl, data) ==
    LET items == ItemsOf(data)
        total_prob == SeqSum(Probs(pl, items))
        off == Abs(total_prob - One) > Tol
        raise == [raised |-> TRUE, made |-> NoBox]
    IN IF \E i \in DOMAIN items :
             ~(0 <= items[i].probability /\ items[i].probability <= One)
             \/ items[i].value <= 0
       THEN raise
       ELSE IF ~(MinCost <= data.cost /\ data.cost <= MaxCost) THEN raise
       ELSE IF off /\ Len(items) > 0 /\ total_prob = 0 THEN raise
       ELSE [raised |-> FALSE,
             made |-> MkLootbox(data.name, data.cost,
                                IF off THEN Rescaled(items, total_prob) ELSE items)]

StandaloneLootbox(slot, data) ==
    LET out == Lootbox_post_init(pool, data)
    IN /\ boxes' = IF out.made.exists THEN [boxes EXCEPT ![slot] = out.made] ELSE boxes
       /\ last' = [op |-> "bin.Lootbox", slot |-> slot, data |-> data,
                   raised |-> out.raised, made |-> out.made]
       /\ UNCHANGED <<pool, normalized, simVars, ga>>

-----------------------------------------------------------------------------
(* The expected value calculator *)

\* The records the calculator's Lootboxes are built from (each is accepted
\* by construction): the five-tier scenario; items stored in descending
\* value, one worth exactly the cost; an expected value equal to the cost;
\* one above the cost; a single item of probability 1 - 5e-7; two items of
\* equal value whose probabilities sum to 1 + 1e-6; an expected value 5e-8
\* below the cost; an item of probability 0.
CalcDicts == {
    [name |-> "scenario", cost |-> 40, items |-> <<
        [name |-> "A", value |-> 2, rarity |-> "common", probability |-> 5000000],
        [name |-> "B", value |-> 10, rarity |-> "uncommon", probability |-> 2500000],
        [name |-> "C", value |-> 30, rarity |-> "rare", probability |-> 1500000],
        [name |-> "D", value |-> 80, rarity |-> "epic", probability |-> 800000],
        [name |-> "E", value |-> 200, rarity |-> "legendary", probability |-> 200000]>>],
    [name |-> "descending", cost |-> 40, items |-> <<
        [name |-> "X", value |-> 60, rarity |-> "rare", probability |-> 2000000],
        [name |-> "Y", value |-> 40, rarity |-> "uncommon", probability |-> 3000000],
        [name |-> "Z", value |-> 20, rarity |-> "common", probability |-> 5000000]>>],
    [name |-> "fair", cost |-> 40, items |-> <<
        [name |-> "A", value |-> 20, rarity |-> "common", probability |-> 5000000],
        [name |-> "B", value |-> 60, rarity |-> "common", probability |-> 5000000]>>],
    [name |-> "generous", cost |-> 30, items |-> <<
        [name |-> "A", value |-> 20, rarity |-> "common", probability |-> 5000000],
        [name |-> "B", value |-> 60, rarity |-> "common", probability |-> 5000000]>>],
    [name |-> "short", cost |-> 40, items |-> <<
        [name |-> "A", value |-> 20, rarity |-> "common", probability |-> One - 5]>>],
    [name |-> "long", cost |-> 40, items |-> <<
        [name |-> "A", value |-> 20, rarity |-> "common", probability |-> 5000000],
        [name |-> "B", value |-> 20, rarity |-> "rare", probability |-> 5000010]>>],
    [name |-> "near", cost |-> 40, items |-> <<
        [name |-> "A", value |-> 2, rarity |-> "common", probability |-> 4999995],
        [name |-> "B", value |-> 78, rarity |-> "rare", probability |-> 5000000]>>],
    [name |-> "zero", cost |-> 40, items |-> <<
        [name |-> "Z", value |-> 100, rarity |-> "legendary", probability |-> 0],
        [name |-> "A", value |-> 20, rarity |-> "common", probability |-> One]>>] }

\* A floating-point quotient n / d for d > 0, to the nearest unit: a
\* quotient that is not zero keeps its sign (it is never rounded to zero).
FloatDiv(n, d) ==
    IF n = 0 THEN 0
    ELSE IF n > 0 THEN Max2(1, MulDiv(n, 1, d))
    ELSE -Max2(1, MulDiv(-n, 1, d))

\* calculate_expected_value with the probabilities taken as percentages.
calculate_expected_value_Percent(pl, lootbox) ==
    SeqSum([i \in DOMAIN lootbox.items |->
               lootbox.items[i].value * (ProbOf(pl, lootbox.items[i]) \div 100)])

\* ExpectedValueCalculator.calculate_expected_value, in probability units
\* times money units.
calculate_expected_value(pl, lootbox) ==
    SeqSum([i \in DOMAIN lootbox.items |->
               lootbox.items[i].value * ProbOf(pl, lootbox.items[i])])

\* calculate_house_edge with the difference taken the other way round.
calculate_house_edge_Swapped(pl, lootbox) ==
    LET expected_value == calculate_expected_value(pl, lootbox)
    IN FloatDiv(expected_value - lootbox.cost * One, lootbox.cost)

\* ExpectedValueCalculator.calculate_house_edge:
\* (lootbox.cost - expected_value) / lootbox.cost, in probability units.
calculate_house_edge(pl, lootbox) ==
    LET expected_value == calculate_expected_value(pl, lootbox)
    IN FloatDiv(lootbox.cost * One - expected_value, lootbox.cost)

CalculateExpectedValue(slot) ==
    /\ boxes[slot].exists
    /\ last' = [op |-> "calculate_expected_value", slot |-> slot,
                out |-> calculate_expected_value(pool, boxes[slot])]
    /\ UNCHANGED <<dataVars, simVars, ga>>

CalculateHouseEdge(slot) ==
    /\ boxes[slot].exists
    /\ last' = [op |-> "calculate_house_edge", slot |-> slot,
                out |-> calculate_house_edge(pool, boxes[slot])]
    /\ UNCHANGED <<dataVars, simVars, ga>>

\* The percentile lists a caller asks for; the first is the default.
PercentileLists ==
    {<<5, 10, 25, 50, 75, 90, 95>>, <<0, 100>>, <<50>>, <<0, 50, 100>>, <<95, 5>>,
     <<20, 80>>}

\* The order of Python's tuples <<value, probability>>.
PairLeq(a, b) == a[1] < b[1] \/ (a[1] = b[1] /\ a[2] <= b[2])

RECURSIVE sorted(_)
\* sorted(zip(values, probabilities))
sorted(pairs) ==
    IF Len(pairs) = 0 THEN <<>>
    ELSE LET m == CHOOSE i \in DOMAIN pairs :
                      /\ \A j \in DOMAIN pairs : PairLeq(pairs[i], pairs[j])
                      /\ \A j \in 1 .. i - 1 : pairs[j] # pairs[i]
             rest == [k \in 1 .. Len(pairs) - 1 |->
                         IF k < m THEN pairs[k] ELSE pairs[k + 1]]
         IN <<pairs[m]>> \o sorted(rest)

\* np.cumsum(a)
cumsum(a) == [i \in DOMAIN a |-> SeqSum(SubSeq(a, 1, i))]

\* np.searchsorted with side='left'.
searchsorted_Left(a, v) == Cardinality({i \in DOMAIN a : a[i] < v})

\* np.searchsorted(a, v, side='right') for a sorted a, counted from 0.
searchsorted(a, v) == Cardinality({i \in DOMAIN a : a[i] <= v})

\* calculate_value_percentiles without the sort: the items in stored order.
calculate_value_percentiles_Unsorted(pl, lootbox, percentiles) ==
    LET sorted_data == [i \in DOMAIN lootbox.items |->
                           <<lootbox.items[i].value, ProbOf(pl, lootbox.items[i])>>]
        sorted_values == [i \in DOMAIN sorted_data |-> sorted_data[i][1]]
        sorted_probs == [i \in DOMAIN sorted_data |-> sorted_data[i][2]]
        cumulative_probs == cumsum(sorted_probs)
        at(p) == LET target_prob == p * (One \div 100)
                     idx == searchsorted(cumulative_probs, target_prob)
                 IN IF idx < Len(sorted_values) THEN sorted_values[idx + 1]
                    ELSE sorted_values[Len(sorted_values)]
    IN [k \in DOMAIN percentiles |-> at(percentiles[k])]

\* ExpectedValueCalculator.calculate_value_percentiles: the value reported
\* for each requested percentile, in the order requested.
calculate_value_percentiles(pl, lootbox, percentiles) ==
    LET sorted_data == sorted([i \in DOMAIN lootbox.items |->
                           <<lootbox.items[i].value, ProbOf(pl, lootbox.items[i])>>])
        sorted_values == [i \in DOMAIN sorted_data |-> sorted_data[i][1]]
        sorted_probs == [i \in DOMAIN sorted_data |-> sorted_data[i][2]]
        cumulative_probs == cumsum(sorted_probs)
        at(p) == LET target_prob == p * (One \div 100)
                     idx == searchsorted(cumulative_probs, target_prob)
                 IN IF idx < Len(sorted_values) THEN sorted_values[idx + 1]
                    ELSE sorted_values[Len(sorted_values)]
    IN [k \in DOMAIN percentiles |-> at(percentiles[k])]

CalculateValuePercentiles(slot, percentiles) ==
    /\ boxes[slot].exists
    /\ last' = [op |-> "calculate_value_percentiles", slot |-> slot,
                percentiles |-> percentiles,
                out |-> calculate_value_percentiles(pool, boxes[slot], percentiles)]
    /\ UNCHANGED <<dataVars, simVars, ga>>

\* get_items_by_rarity keeping the first item of the tier only.
get_items_by_rarity_First(lootbox, rarity) ==
    LET all == SelectSeq(lootbox.items, LAMBDA item : item.rarity = rarity)
    IN IF Len(all) = 0 THEN all ELSE <<all[1]>>

\* Lootbox.get_items_by_rarity
get_items_by_rarity(lootbox, rarity) ==
    SelectSeq(lootbox.items, LAMBDA item : item.rarity = rarity)

\* ExpectedValueCalculator.analyze_rarity_breakdown: an entry per member of
\* RarityTier; average_value in money units times CostScale.
analyze_rarity_breakdown(pl, lootbox) ==
    [rarity \in RarityTier |->
        LET items == get_items_by_rarity(lootbox, rarity)
            total_prob == SeqSum(Probs(pl, items))
            contribution == SeqSum([i \in DOMAIN items |->
                                       items[i].value * ProbOf(pl, items[i])])
            values == {items[i].value : i \in DOMAIN items}
        IN IF Len(items) > 0
           THEN [item_count |-> Len(items),
                 total_probability |-> total_prob,
                 average_value |-> IF total_prob > 0
                                   THEN MulDiv(contribution, CostScale, total_prob)
                                   ELSE 0,
                 min_value |-> CHOOSE v \in values : \A w \in values : v <= w,
                 max_value |-> CHOOSE v \in values : \A w \in values : v >= w,
                 expected_contribution |-> contribution]
           ELSE [item_count |-> 0, total_probability |-> 0, average_value |-> 0,
                 min_value |-> 0, max_value |-> 0, expected_contribution |-> 0]]

AnalyzeRarityBreakdown(slot) ==
    /\ boxes[slot].exists
    /\ last' = [op |-> "analyze_rarity_breakdown", slot |-> slot,
                out |-> analyze_rarity_breakdown(pool, boxes[slot])]
    /\ UNCHANGED <<dataVars, simVars, ga>>

\* The profit margins a caller asks for: -1.5, -0.5, 0, 0.1, 0.5, 1.0.
ProfitMargins == {-15000000, -5000000, 0, 1000000, 5000000, One}

\* The loop "for item in lootbox.items: if test: total += item.probability".
AddWhere(pl, items, Test(_)) ==
    SeqSum([i \in DOMAIN items |->
               IF Test(items[i]) THEN ProbOf(pl, items[i]) ELSE 0])

\* ExpectedValueCalculator.calculate_break_even_probability
calculate_break_even_probability(pl, lootbox) ==
    AddWhere(pl, lootbox.items, LAMBDA item : item.value >= lootbox.cost)

\* calculate_profit_probability counting the items worth more than the
\* target only.
calculate_profit_probability_Strict(pl, lootbox, min_profit_margin) ==
    AddWhere(pl, lootbox.items,
             LAMBDA item : item.value * One > lootbox.cost * (One + min_profit_margin))

\* ExpectedValueCalculator.calculate_profit_probability; the comparison
\* item.value >= lootbox.cost * (1 + min_profit_margin) multiplied out.
calculate_profit_probability(pl, lootbox, min_profit_margin) ==
    AddWhere(pl, lootbox.items,
             LAMBDA item : item.value * One >= lootbox.cost * (One + min_profit_margin))

CalculateBreakEvenProbability(slot) ==
    /\ boxes[slot].exists
    /\ last' = [op |-> "calculate_break_even_probability", slot |-> slot,
                out |-> calculate_break_even_probability(pool, boxes[slot])]
    /\ UNCHANGED <<dataVars, simVars, ga>>

CalculateProfitProbability(slot, min_profit_margin) ==
    /\ boxes[slot].exists
    /\ last' = [op |-> "calculate_profit_probability", slot |-> slot,
                min_profit_margin |-> min_profit_margin,
                out |-> calculate_profit_probability(pool, boxes[slot],
                                                     min_profit_margin)]
    /\ UNCHANGED <<dataVars, simVars, ga>>

-----------------------------------------------------------------------------
(* LootboxAnalytics: the player value rating *)

\* The house edges a rating is asked for: -0.10 to 0.50 in steps of 0.01,
\* and the neighbours of the band ends.
HouseEdgeChoices ==
    {k * (One \div 100) : k \in -10 .. 50}
      \cup {b * (One \div 10) + d : b \in 0 .. 4, d \in {-1, 1}}

\* get_player_value_rating with closed upper band ends.
get_player_value_rating_Closed(house_edge) ==
    IF house_edge <= 0 THEN "Excellent (Player Advantage)"
    ELSE IF house_edge <= One \div 10 THEN "Very Good"
    ELSE IF house_edge <= 2 * (One \div 10) THEN "Good"
    ELSE IF house_edge <= 3 * (One \div 10) THEN "Fair"
    ELSE IF house_edge <= 4 * (One \div 10) THEN "Poor"
    ELSE "Very Poor"

\* LootboxAnalytics.get_player_value_rating.
get_player_value_rating(house_edge) ==
    IF house_edge < 0 THEN "Excellent (Player Advantage)"
    ELSE IF house_edge < One \div 10 THEN "Very Good"
    ELSE IF house_edge < 2 * (One \div 10) THEN "Good"
    ELSE IF house_edge < 3 * (One \div 10) THEN "Fair"
    ELSE IF house_edge < 4 * (One \div 10) THEN "Poor"
    ELSE "Very Poor"

\* A caller rates an analytics record of house edge house_edge; the record
\* rated before it is remembered.
GetPlayerValueRating(house_edge) ==
    /\ last' = [op |-> "get_player_value_rating", house_edge |-> house_edge,
                rating |-> get_player_value_rating(house_edge),
                before |-> IF last.op = "get_player_value_rating"
                           THEN <<[house_edge |-> last.house_edge,
                                   rating |-> last.rating]>>
                           ELSE <<>>]
    /\ UNCHANGED <<dataVars, simVars, ga>>

-----------------------------------------------------------------------------
(* bin/lootbox_calculator.py: the iterative optimizer *)

\* range(1000): the passes of the optimization loop.
MaxIterations == 1000

\* The records the standalone Lootboxes to optimize are built from: one
\* item above the cost; none; a single item whose probability is within the
\* tolerance of 1; every item above the cost; probabilities summing to 0.9.
IterDicts == {
    [name |-> "mixed", cost |-> 40, items |-> <<
        [name |-> "A", value |-> 2, rarity |-> "common", probability |-> 5000000],
        [name |-> "B", value |-> 10, rarity |-> "uncommon", probability |-> 3000000],
        [name |-> "C", value |-> 80, rarity |-> "rare", probability |-> 2000000]>>],
    [name |-> "low", cost |-> 40, items |-> <<
        [name |-> "A", value |-> 20, rarity |-> "common", probability |-> 5000000],
        [name |-> "B", value |-> 30, rarity |-> "uncommon", probability |-> 5000000]>>],
    [name |-> "tolerant", cost |-> 40, items |-> <<
        [name |-> "A", value |-> 30, rarity |-> "common", probability |-> One - Tol]>>],
    [name |-> "high", cost |-> 10, items |-> <<
        [name |-> "A", value |-> 20, rarity |-> "common", probability |-> 5000000],
        [name |-> "B", value |-> 60, rarity |-> "rare", probability |-> 5000000]>>],
    [name |-> "unnormalized", cost |-> 40, items |-> <<
        [name |-> "A", value |-> 2, rarity |-> "common", probability |-> 6000000],
        [name |-> "C", value |-> 80, rarity |-> "rare", probability |-> 3000000]>>] }

\* The target house edges asked for: 0.15, 0.45, 0.5, 0.9.
IterTargets == {1500000, 4500000, 5000000, 9000000}

\* (lootbox.cost - current_ev) / lootbox.cost for the working probabilities.
current_house_edge(item_values, cost, probabilities) ==
    One - MulDiv(ZipExpectedValue(item_values, probabilities), 1, cost)

\* The adjustment with the two factors exchanged.
adjust_probabilities_Exchanged(item_values, cost, target_house_edge, probabilities) ==
    LET factor == IF current_house_edge(item_values, cost, probabilities)
                       < target_house_edge
                  THEN 101 ELSE 99
    IN [i \in DOMAIN probabilities |->
          IF item_values[i] > cost THEN MulDiv(probabilities[i], factor, 100)
          ELSE probabilities[i]]

\* "Adjust probabilities": the items worth more than the cost are scaled by
\* 0.99 when the house edge is below the target and by 1.01 otherwise.
adjust_probabilities(item_values, cost, target_house_edge, probabilities) ==
    LET factor == IF current_house_edge(item_values, cost, probabilities)
                       < target_house_edge
                  THEN 99 ELSE 101
    IN [i \in DOMAIN probabilities |->
          IF item_values[i] > cost THEN MulDiv(probabilities[i], factor, 100)
          ELSE probabilities[i]]

\* The Lootbox(...) call that ends optimize_probabilities.
optimized_lootbox(pl, lootbox, probabilities) ==
    Lootbox_post_init(pl,
        [name |-> "Optimized", cost |-> lootbox.cost,
         items |-> [i \in DOMAIN lootbox.items |->
                      [name |-> lootbox.items[i].name,
                       value |-> lootbox.items[i].value,
                       rarity |-> lootbox.items[i].rarity,
                       probability |-> probabilities[i]]]])

\* LootboxCalculator.optimize_probabilities is called on the standalone
\* Lootbox in `slot`: the items are copied.
OptimizeProbabilities(slot, target_house_edge) ==
    /\ boxes[slot].exists
    /\ last' = [op |-> "optimize_probabilities", phase |-> "iterating",
                lootbox |-> boxes[slot], target_house_edge |-> target_house_edge,
                iteration |-> 0,
                probabilities |-> Probs(pool, boxes[slot].items),
                stepped |-> FALSE, ev_before |-> 0, house_edge_before |-> 0,
                sum_before |-> 0]
    /\ UNCHANGED <<dataVars, simVars, ga>>

\* One pass of "for iteration in range(1000)": the break with the return
\* that follows it, or an adjustment and the renormalization.
OptimizeIteration ==
    /\ last.op = "optimize_probabilities" /\ last.phase = "iterating"
    /\ last.iteration < MaxIterations
    /\ LET cost == last.lootbox.cost
           item_values == [i \in DOMAIN last.lootbox.items |->
                              last.lootbox.items[i].value]
           current_ev == ZipExpectedValue(item_values, last.probabilities)
           house_edge == current_house_edge(item_values, cost, last.probabilities)
           adjusted == adjust_probabilities(item_values, cost,
                                            last.target_house_edge, last.probabilities)
           total_prob == SeqSum(adjusted)
       IN IF Abs(house_edge - last.target_house_edge) < One \div 1000
          THEN last' = [last EXCEPT !.phase = "returned"]
                         @@ [broke |-> TRUE,
                             out |-> optimized_lootbox(pool, last.lootbox,
                                                       last.probabilities)]
          ELSE IF total_prob = 0
          THEN \* item.probability / total_prob raises ZeroDivisionError
               last' = [last EXCEPT !.phase = "raised"]
          ELSE last' = [last EXCEPT
                          !.iteration = @ + 1,
                          !.probabilities =
                              [i \in DOMAIN adjusted |->
                                  MulDiv(adjusted[i], One, total_prob)],
                          !.stepped = TRUE,
                          !.ev_before = current_ev,
                          !.house_edge_before = house_edge,
                          !.sum_before = SeqSum(last.probabilities)]
    /\ UNCHANGED <<dataVars, simVars, ga>>

\* The loop ran all its passes: the optimized Lootbox is built and returned.
OptimizeReturn ==
    /\ last.op = "optimize_probabilities" /\ last.phase = "iterating"
    /\ last.iteration = MaxIterations
    /\ last' = [last EXCEPT !.phase = "returned"]
                 @@ [broke |-> FALSE,
                     out |-> optimized_lootbox(pool, last.lootbox, last.probabilities)]
    /\ UNCHANGED <<dataVars, simVars, ga>>

-----------------------------------------------------------------------------
(* The data model's specification *)

Init ==
    /\ pool = PoolInit
    /\ boxes = [s \in Slots |-> NoBox]
    /\ last = [op |-> "none"]
    /\ normalized = 0
    /\ rng = 0
    /\ sims = [i \in SimIds |-> NoSim]
    /\ ga = NoSearch

\* One Lootbox at a time, over every cost and every list of items.
Next ==
    \/ \E cost \in CostChoices, ids \in PairLists : Construct(1, cost, ids)
    \/ \E data \in RawDicts \cup
             {to_dict(pool, boxes[s]) : s \in {t \in Slots : boxes[t].exists}} :
          FromDict(1, data)
    \/ Normalize(1)
    \/ Drop(1)

Spec == Init /\ [][Next]_vars

\* Two Lootboxes at a time, at one cost.
NextShared ==
    \/ \E slot \in Slots, ids \in IdLists : Construct(slot, 40, ids)
    \/ \E slot \in Slots : Normalize(slot)
    \/ \E slot \in Slots : Drop(slot)

SpecShared == Init /\ [][NextShared]_vars

\* The simulator: a Lootbox exists, the process-wide generator is in the
\* state the interpreter's start left it in.
InitSim ==
    /\ pool = PoolInit
    /\ \E box \in SimBoxes : boxes = [s \in Slots |-> IF s = 1 THEN box ELSE NoBox]
    /\ last = [op |-> "none"]
    /\ normalized = 0
    /\ rng \in RngStates
    /\ sims = [i \in SimIds |-> NoSim]
    /\ ga = NoSearch

\* Two simulators, single openings.
NextReplay ==
    \/ \E i \in SimIds, seed \in SeedChoices : NewSimulator(i, seed)
    \/ \E i \in SimIds : SingleOpening(i)

SpecReplay == InitSim /\ [][NextReplay]_vars

\* One simulator, the bulk operations.
NextSim ==
    \/ \E seed \in SeedChoices : NewSimulator(1, seed)
    \/ \E n \in 0 .. MaxSimulations : SimulateMultiple(1, n)
    \/ \E n \in 0 .. MaxSimulations : AnalyzeStreaks(1, n)
    \/ \E n \in DrawCounts : ConfidenceIntervals(1, n)

SpecSim == InitSim /\ [][NextSim]_vars

\* One simulator, simulate_multiple_openings alone.
NextOpenings ==
    \/ \E seed \in SeedChoices : NewSimulator(1, seed)
    \/ \E n \in 0 .. MaxSimulations : SimulateMultiple(1, n)

SpecOpenings == InitSim /\ [][NextOpenings]_vars

\* The optimizer: a Lootbox exists.
InitOpt ==
    /\ pool = PoolInit
    /\ \E box \in OptBoxes : boxes = [s \in Slots |-> IF s = 1 THEN box ELSE NoBox]
    /\ last = [op |-> "none"]
    /\ normalized = 0
    /\ rng = 0
    /\ sims = [i \in SimIds |-> NoSim]
    /\ ga = NoSearch

\* The gradient search, whatever the solver does.
NextOpt ==
    \E target \in TargetChoices, constraints \in ConstraintChoices :
        OptimizeForHouseEdge(target, constraints, FALSE)

SpecOpt == InitOpt /\ [][NextOpt]_vars

\* The gradient search with an exact solver.
NextExact ==
    \E target \in TargetChoices, constraints \in ConstraintChoices :
        OptimizeForHouseEdge(target, constraints, TRUE)

SpecExact == InitOpt /\ [][NextExact]_vars

\* The sweep over a cost range.
NextSweep ==
    \E range \in CostRanges, target \in {1500000, 5000000},
       constraints \in ConstraintChoices :
        OptimizeForCostRange(range, target, constraints)

SpecSweep == InitOpt /\ [][NextSweep]_vars

\* The genetic search, call by call.
NextGA ==
    \/ \E items \in GAItemLists, target \in {0, 1500000},
          population_size \in PopulationSizes, generations \in 0 .. MaxGenerations,
          mutation_rate \in {0, One \div 10}, constraints \in ConstraintChoices :
            GAStart(items, 40, target, population_size, generations, mutation_rate,
                    constraints)
    \/ GAGeneration
    \/ GAFinish

SpecGA == InitOpt /\ [][NextGA]_vars

\* The cost solve, over every input.
NextCost ==
    \E input \in CostSolveInputs, target \in CostTargets, bounds \in CostBounds :
        FindOptimalCost(input, target, bounds)

SpecCost == Init /\ [][NextCost]_vars

\* Both searches, each over a few of its arguments.
NextFrame ==
    \/ \E target \in {0, 1500000}, constraints \in {DefaultConstraints} :
          OptimizeForHouseEdge(target, constraints, FALSE)
    \/ \E items \in GAItemLists, generations \in 0 .. 1 :
          GAStart(items, 40, 1500000, 3, generations, One \div 10, DefaultConstraints)
    \/ GAGeneration
    \/ GAFinish

SpecFrame == InitOpt /\ [][NextFrame]_vars

\* The entry points that build a lootbox, each on every record.
NextPolicy ==
    \/ \E data \in PolicyDicts : FromDict(1, data)
    \/ \E data \in PolicyDicts : Create(1, data)
    \/ \E data \in PolicyDicts : StandaloneLootbox(1, data)

SpecPolicy == Init /\ [][NextPolicy]_vars

\* The calculator, on every Lootbox built from the calculator's records.
NextCalc ==
    \/ \E data \in CalcDicts : FromDict(1, data)
    \/ CalculateExpectedValue(1)
    \/ CalculateHouseEdge(1)
    \/ \E percentiles \in PercentileLists : CalculateValuePercentiles(1, percentiles)
    \/ AnalyzeRarityBreakdown(1)
    \/ CalculateBreakEvenProbability(1)
    \/ \E margin \in ProfitMargins : CalculateProfitProbability(1, margin)

SpecCalc == Init /\ [][NextCalc]_vars

\* One simulator, single openings on any uniform number.
NextScan ==
    \/ \E seed \in SeedChoices : NewSimulator(1, seed)
    \/ \E rand \in UniformChoices : SingleOpeningAt(1, rand)

SpecScan == InitSim /\ [][NextScan]_vars

\* The draw counts a caller asks a streak analysis for.
StreakCounts == 0 .. 2 * MaxSimulations

\* One simulator, streak analyses.
NextStreaks ==
    \/ \E seed \in SeedChoices : NewSimulator(1, seed)
    \/ \E n \in StreakCounts : AnalyzeStreaks(1, n)

SpecStreaks == InitSim /\ [][NextStreaks]_vars

\* Ratings of analytics records.
NextRating == \E house_edge \in HouseEdgeChoices : GetPlayerValueRating(house_edge)

SpecRating == Init /\ [][NextRating]_vars

\* Standalone Lootboxes and the iterative optimizer; a call runs to its end
\* before the next operation.
NextIter ==
    \/ \E data \in IterDicts :
          /\ ~(last.op = "optimize_probabilities" /\ last.phase = "iterating")
          /\ StandaloneLootbox(1, data)
    \/ \E target_house_edge \in IterTargets :
          /\ ~(last.op = "optimize_probabilities" /\ last.phase = "iterating")
          /\ OptimizeProbabilities(1, target_house_edge)
    \/ OptimizeIteration
    \/ OptimizeReturn

SpecIter == Init /\ [][NextIter]_vars

-----------------------------------------------------------------------------
(* Claims about the data model *)

\* The probabilities of a list of items sum to 1.0 within 1e-6.
SumsToOne(pl, items) ==
    LET total == SeqSum(Probs(pl, items))
    IN One - Tol <= total /\ total <= One + Tol

NamesDistinct(items) ==
    \A i, j \in DOMAIN items : i # j => items[i].name # items[j].name

\* C1: constructing a Lootbox succeeds if and only if the cost is within
\* [0.50, 1000.00], the item list is not empty, the item names are pairwise
\* distinct and the probabilities sum to 1.0 within 1e-6; otherwise it
\* raises and no Lootbox object is produced.
C1_ConstructionIff ==
    last.op = "Lootbox" =>
        /\ ~last.raised <=>
              /\ MinCost <= last.cost /\ last.cost <= MaxCost
              /\ last.items # <<>>
              /\ NamesDistinct(last.items)
              /\ SumsToOne(pool, last.items)
        /\ last.raised => ~last.made.exists
        /\ ~last.raised =>
              /\ last.made.exists
              /\ last.made.cost = last.cost /\ last.made.items = last.items
              /\ boxes[last.slot] = last.made

\* C1's case: a construction refused for its duplicate names alone.
C1_Witness ==
    /\ last.op = "Lootbox" /\ last.raised
    /\ MinCost <= last.cost /\ last.cost <= MaxCost
    /\ Len(last.items) = 2 /\ SumsToOne(pool, last.items)
    /\ ~NamesDistinct(last.items)

\* C2: every Lootbox object that exists has probabilities summing to 1.0
\* within 1e-6, whatever public operations ran before.
C2_ProbabilityConservation ==
    \A s \in Slots : boxes[s].exists => SumsToOne(pool, boxes[s].items)

\* C3: an adjustment never mutates the Lootbox it is applied to: after
\* normalize_probabilities the receiver's probabilities are what they were.
C3_NeverMutatedInPlace ==
    last.op = "normalize_probabilities" =>
        Probs(pool, boxes[last.slot].items) = last.before

-----------------------------------------------------------------------------
(* Claims about the simulator *)

\* C4: two simulators constructed with the same seed draw the same sequence
\* of items from the same Lootbox, whatever the order of the constructions
\* and of the draws.
C4_DeterministicReplay ==
    \A i, j \in SimIds :
        (/\ sims[i].exists /\ sims[j].exists
         /\ sims[i].seed # NoSeed /\ sims[i].seed = sims[j].seed)
        => \A k \in 1 .. Min2(Len(sims[i].drawn), Len(sims[j].drawn)) :
              sims[i].drawn[k] = sims[j].drawn[k]

\* C8: simulate_multiple_openings, analyze_streak_patterns and
\* calculate_confidence_intervals return a result for every draw count
\* n >= 0; none raises.
C8_SamplingNeverThrows ==
    last.op \in {"simulate_multiple_openings", "analyze_streak_patterns",
                 "calculate_confidence_intervals"} => ~last.out.raised

-----------------------------------------------------------------------------
(* Claims about the gradient optimizer *)

\* C5: optimize_for_house_edge never raises, whatever the solver does and
\* whatever the bounds; a search that does not succeed returns a result with
\* no Lootbox, the original house edge and expected value, and a message.
C5_NeverRaises ==
    last.op = "optimize_for_house_edge" =>
        /\ ~last.out.raised
        /\ (last.solver.raised \/ ~last.solver.success
              \/ ~OptimizedOk(pool, boxes[1], last.solver.x))
           => /\ ~last.out.success
              /\ last.out.optimized_lootbox = NoBox
              /\ last.out.optimized_house_edge = get_house_edge(pool, boxes[1])
              /\ last.out.optimized_expected_value = get_expected_value(pool, boxes[1])
              /\ last.out.original_house_edge = last.out.optimized_house_edge
              /\ last.out.original_expected_value = last.out.optimized_expected_value
              /\ last.out.optimization_message
                    \in {"Optimization error", "Optimization failed"}

\* C5's case: the solver reported success and the Lootbox built from its
\* vector was refused by validation; the search returned a failed result.
C5_Witness ==
    /\ last.op = "optimize_for_house_edge"
    /\ ~last.solver.raised /\ last.solver.success
    /\ ~OptimizedOk(pool, boxes[1], last.solver.x)
    /\ ~last.out.raised /\ ~last.out.success

\* The total probability of the items of a tier.
TierTotal(pl, box, tier) ==
    LET mass == [i \in DOMAIN box.items |->
                    IF box.items[i].rarity = tier THEN ProbOf(pl, box.items[i]) ELSE 0]
    IN SumFn(mass, 1, Len(box.items))

\* C9: after a successful optimize_for_house_edge, the total probability of
\* every rarity tier of the optimized Lootbox lies within the tier's
\* [minimum, maximum] of the constraints passed in.
C9_TierTotalsWithinBounds ==
    (last.op = "optimize_for_house_edge" /\ last.out.success) =>
        \A tier \in {last.out.optimized_lootbox.items[i].rarity :
                        i \in DOMAIN last.out.optimized_lootbox.items} :
            LET total == TierTotal(pool, last.out.optimized_lootbox, tier)
            IN /\ min_prob(last.constraints, tier) <= total
               /\ total <= max_prob(last.constraints, tier)

\* A target is solvable when some vector that sums to 1, with every item
\* within the bounds of its rarity, attains the target house edge exactly.
Solvable(pl, box, target_house_edge, constraints) ==
    \E x \in FeasibleSet(lower_bounds(box, constraints),
                         upper_bounds(box, constraints)) :
        /\ SumFn(x, 1, Len(x)) = One
        /\ get_house_edge(pl, MkLootbox(box.name, box.cost, OptimizedItems(box, x)))
              = target_house_edge

C7_SweepReturnsTenResults ==
    (last.op = "optimize_for_cost_range" /\ last.min_cost <= last.max_cost) =>
        /\ ~last.out.raised
        /\ Len(last.out.results) = 10
        /\ \A i \in 1 .. 10 :
             last.out.results[i].success =>
                last.out.results[i].optimized_lootbox.cost
                   = last.min_cost + MulDiv(i - 1, last.max_cost - last.min_cost, 9)

\* C6: genetic_algorithm_optimization never raises and returns a result
\* with success = true, an optimized Lootbox and iterations equal to the
\* generations argument, for every population size >= 1 and every
\* generation budget >= 0.
C6_GeneticAlwaysSucceeds ==
    (last.op = "genetic_algorithm_optimization" /\ last.phase = "returned") =>
        /\ ~last.out.raised
        /\ last.out.success
        /\ last.out.optimized_lootbox.exists
        /\ last.out.iterations = last.generations

-----------------------------------------------------------------------------
(* Claims about the cost solve *)

\* C11: for min_cost <= max_cost, find_optimal_cost returns a cost inside
\* [min_cost, max_cost]; the flag is true exactly when the target is below 1
\* and EV / (1 - target) lies in [min_cost, max_cost], and then that value
\* is returned; otherwise the value clamped into the range is returned with
\* the flag false (max_cost when the target is 1 or more).
C11_CostClampedIntoRange ==
    (last.op = "find_optimal_cost" /\ last.min_cost <= last.max_cost) =>
        LET ev == ZipExpectedValue(last.item_values, last.probabilities)
            den == One - last.target_house_edge
            lo == last.min_cost * CostScale
            hi == last.max_cost * CostScale
            inside == /\ last.target_house_edge < One
                      /\ last.min_cost * den <= ev /\ ev <= last.max_cost * den
        IN /\ lo <= last.out.cost /\ last.out.cost <= hi
           /\ last.out.feasible <=> inside
           /\ inside => Abs(MulDiv(last.out.cost, den, CostScale) - ev) <= den \div CostScale
           /\ (last.target_house_edge >= One) => last.out.cost = hi
           /\ (last.target_house_edge < One /\ ev < last.min_cost * den)
                 => last.out.cost = lo
           /\ (last.target_house_edge < One /\ ev > last.max_cost * den)
                 => last.out.cost = hi

\* C11's case: a solved cost above the range, clamped to max_cost with the
\* flag false.
C11_Witness ==
    /\ last.op = "find_optimal_cost" /\ last.min_cost < last.max_cost
    /\ last.target_house_edge < One
    /\ ZipExpectedValue(last.item_values, last.probabilities)
          > last.max_cost * (One - last.target_house_edge)
    /\ ~last.out.feasible /\ last.out.cost = last.max_cost * CostScale

\* The house edge (cost - EV) / cost at a cost in units of $0.05 / CostScale;
\* the division is undefined at cost 0.
HouseEdgeAt(ev, cost) ==
    IF cost = 0 THEN [raised |-> TRUE]
    ELSE [raised |-> FALSE, value |-> One - MulDiv(ev, CostScale, cost)]

\* C12: whenever find_optimal_cost returns (cost, true), the house edge
\* (cost - EV) / cost at the returned cost equals the target.
C12_CostSolveRoundTrip ==
    (last.op = "find_optimal_cost" /\ last.out.feasible) =>
        LET he == HouseEdgeAt(ZipExpectedValue(last.item_values, last.probabilities),
                              last.out.cost)
        IN /\ ~he.raised
           /\ Abs(he.value - last.target_house_edge) <= Tol

\* C12 amended: whenever find_optimal_cost returns (cost, true) with a cost
\* other than 0, the house edge (cost - EV) / cost at the returned cost
\* equals the target (within the rounding of the two divisions).
C12_RoundTripAtNonZeroCost ==
    (last.op = "find_optimal_cost" /\ last.out.feasible /\ last.out.cost # 0) =>
        LET he == HouseEdgeAt(ZipExpectedValue(last.item_values, last.probabilities),
                              last.out.cost)
        IN /\ ~he.raised
           /\ Abs(he.value - last.target_house_edge) <= Tol

\* C12's case: the spec's instance, EV = 1.70 and target 0.15 within
\* [0.5, 4.0], solved to the cost 2.0.
C12_Witness ==
    /\ last.op = "find_optimal_cost"
    /\ ZipExpectedValue(last.item_values, last.probabilities) = 34 * One
    /\ last.target_house_edge = 1500000
    /\ last.min_cost = 10 /\ last.max_cost = 80
    /\ last.out.feasible /\ last.out.cost = 40 * CostScale

-----------------------------------------------------------------------------
(* Claims about both searches *)

\* The Lootbox `made` has the cost given and the items given, in the same
\* order, each with the same name, value and rarity.
SameButProbabilities(items, cost, made) ==
    /\ made.exists /\ made.cost = cost
    /\ Len(made.items) = Len(items)
    /\ \A i \in DOMAIN items :
         /\ made.items[i].name = items[i].name
         /\ made.items[i].value = items[i].value
         /\ made.items[i].rarity = items[i].rarity

-----------------------------------------------------------------------------
(* Claims about the entry points *)

\* The probabilities of a record sum to 1.0 within 1e-6.
RecordSumsToOne(data) ==
    LET total == SeqSum([i \in DOMAIN data.items |-> data.items[i].probability])
    IN One - Tol <= total /\ total <= One + Tol

\* C14: every entry point that builds a lootbox treats an item list whose
\* probabilities do not sum to 1.0 within tolerance in the same way: whether
\* the list the last entry point was given is refused or built (rescaled) is
\* the same at the core constructor, at the create command and at the
\* standalone Lootbox.
C14_UniformSumPolicy ==
    (last.op \in {"from_dict", "create", "bin.Lootbox"} /\ ~RecordSumsToOne(last.data)) =>
        LET core == from_dict(pool, last.data).exists
            cli == create(pool, last.data).made.exists
            standalone == Lootbox_post_init(pool, last.data).made.exists
        IN /\ core = cli /\ cli = standalone
           /\ last.made.exists = core

-----------------------------------------------------------------------------
(* Claims about the calculator *)

\* The least and the greatest item value of a Lootbox.
MinValue(box) == CHOOSE v \in {box.items[i].value : i \in DOMAIN box.items} :
                     \A i \in DOMAIN box.items : v <= box.items[i].value

MaxValue(box) == CHOOSE v \in {box.items[i].value : i \in DOMAIN box.items} :
                     \A i \in DOMAIN box.items : v >= box.items[i].value

\* C15: for every valid Lootbox, the expected value lies between the least
\* and the greatest item value.
C15_ExpectedValueBounds ==
    last.op = "calculate_expected_value" =>
        /\ MinValue(boxes[last.slot]) * One <= last.out
        /\ last.out <= MaxValue(boxes[last.slot]) * One

\* C15 amended: for every Lootbox as construction accepted it, the expected
\* value lies between (1 - 1e-6) times the least and (1 + 1e-6) times the
\* greatest item value.
C15_ExpectedValueWithinTolerance ==
    last.op = "calculate_expected_value" =>
        /\ MinValue(boxes[last.slot]) * (One - Tol) <= last.out
        /\ last.out <= MaxValue(boxes[last.slot]) * (One + Tol)

\* C15's case: the expected value of a Lootbox of several values, strictly
\* between the least and the greatest.
C15_Witness ==
    /\ last.op = "calculate_expected_value"
    /\ Len(boxes[last.slot].items) = 5
    /\ MinValue(boxes[last.slot]) * One < last.out
    /\ last.out < MaxValue(boxes[last.slot]) * One

\* C16: the house edge is positive exactly when the expected value is below
\* the cost, negative exactly when it is above, zero exactly when they are
\* equal.
C16_HouseEdgeSign ==
    last.op = "calculate_house_edge" =>
        LET ev == calculate_expected_value(pool, boxes[last.slot])
            cost == boxes[last.slot].cost * One
        IN /\ last.out > 0 <=> ev < cost
           /\ last.out < 0 <=> ev > cost
           /\ last.out = 0 <=> ev = cost

\* C16's case: an expected value below the cost by so little that the
\* house edge is below 1e-7.
C16_Witness ==
    /\ last.op = "calculate_house_edge" /\ last.out > 0
    /\ boxes[last.slot].cost * One
          - calculate_expected_value(pool, boxes[last.slot]) < boxes[last.slot].cost

\* C17: for any two requested percentiles p1 < p2, the value reported for
\* p1 is at most the value reported for p2.
C17_PercentileMonotone ==
    last.op = "calculate_value_percentiles" =>
        \A j, k \in DOMAIN last.percentiles :
            last.percentiles[j] < last.percentiles[k] => last.out[j] <= last.out[k]

\* C17's case: a Lootbox whose items are stored in descending value, asked
\* for percentiles that fall on different items.
C17_Witness ==
    /\ last.op = "calculate_value_percentiles"
    /\ Len(boxes[last.slot].items) >= 2
    /\ boxes[last.slot].items[1].value > boxes[last.slot].items[2].value
    /\ \E j, k \in DOMAIN last.percentiles :
          last.percentiles[j] < last.percentiles[k] /\ last.out[j] < last.out[k]

\* The rarity tags in the order of the enumeration.
RarityOrder == <<"common", "uncommon", "rare", "epic", "legendary", "mythic">>

\* C18: analyze_rarity_breakdown has an entry for each of the six rarity
\* tags, all zero for a tag with no items; the total_probability entries sum
\* to the sum of the item probabilities (1.0 within 1e-6) and the
\* expected_contribution entries sum to the expected value.
C18_RarityMassConservation ==
    last.op = "analyze_rarity_breakdown" =>
        LET box == boxes[last.slot]
            mass == SeqSum([t \in DOMAIN RarityOrder |->
                               last.out[RarityOrder[t]].total_probability])
            contributions == SeqSum([t \in DOMAIN RarityOrder |->
                               last.out[RarityOrder[t]].expected_contribution])
        IN /\ DOMAIN last.out = RarityTier
           /\ \A tag \in RarityTier :
                (\A i \in DOMAIN box.items : box.items[i].rarity # tag) =>
                    last.out[tag] = [item_count |-> 0, total_probability |-> 0,
                                     average_value |-> 0, min_value |-> 0,
                                     max_value |-> 0, expected_contribution |-> 0]
           /\ mass = SeqSum(Probs(pool, box.items))
           /\ One - Tol <= mass /\ mass <= One + Tol
           /\ contributions = calculate_expected_value(pool, box)

\* C18's case: a Lootbox with two items in one tier and no item in others.
C18_Witness ==
    /\ last.op = "analyze_rarity_breakdown"
    /\ last.out["common"].item_count = 2
    /\ last.out["mythic"].item_count = 0

-----------------------------------------------------------------------------
(* Claims about the simulation result *)

RECURSIVE SumCounts(_)
\* The sum of the counts of a dictionary of counts.
SumCounts(counts) ==
    IF DOMAIN counts = {} THEN 0
    ELSE LET k == CHOOSE key \in DOMAIN counts : TRUE
         IN counts[k] + SumCounts([j \in DOMAIN counts \ {k} |-> counts[j]])

\* C20: a simulation of n >= 1 draws returns a result with
\* total_cost = n * cost, total_value_received = the sum of the values of
\* the items drawn, rarity counts and value bucket counts that each sum to
\* n, and house_edge_actual = (total_cost - total_value_received) / total_cost.
C20_SimulationTotals ==
    (last.op = "simulate_multiple_openings" /\ last.n >= 1) =>
        LET box == boxes[1]
            probs == Probs(pool, box.items)
            drawn == [k \in 1 .. last.n |->
                         simulate_single_opening(probs, RngDraw(last.from, k))]
            r == last.out.result
        IN /\ ~last.out.raised
           /\ r.total_cost = last.n * box.cost
           /\ r.total_value_received
                 = SeqSum([k \in 1 .. last.n |-> box.items[drawn[k]].value])
           /\ SumCounts(r.rarity_distribution) = last.n
           /\ SumCounts(r.value_distribution) = last.n
           /\ MulDiv(One - r.house_edge_actual, r.total_cost, One)
                 = r.total_value_received

\* C20's case: several draws that fall on items of different rarities and
\* different value buckets.
C20_Witness ==
    /\ last.op = "simulate_multiple_openings" /\ last.n >= 3
    /\ ~last.out.raised
    /\ Cardinality(DOMAIN last.out.result.rarity_distribution) >= 2
    /\ Cardinality(DOMAIN last.out.result.value_distribution) >= 2

-----------------------------------------------------------------------------
(* More claims about the data model *)

C22_IdempotentRenormalization ==
    last.op = "normalize_probabilities" =>
        LET box == boxes[last.slot]
            once == Probs(pool, box.items)
            again == normalize_probabilities(pool, box)
            twice == Probs(again[1], [i \in DOMAIN box.items |-> again[2][i]])
        IN /\ SeqSum(once) = One
           /\ twice = once
           /\ SeqSum(last.before) = One => once = last.before

\* C22's case: a second normalization ran on probabilities that the first
\* one had changed.
C22_Witness ==
    /\ last.op = "normalize_probabilities" /\ normalized = 2
    /\ SeqSum(last.before) = One
    /\ Probs(pool, boxes[last.slot].items) = last.before
    /\ \E i \in DOMAIN last.before : last.before[i] % 10 # 0

-----------------------------------------------------------------------------
(* More claims about the simulator *)

\* The probability mass of the first k items in stored order.
CumulativeMass(probs, k) == SeqSum(SubSeq(probs, 1, k))

\* C23: simulate_single_opening returns the first item in stored order whose
\* cumulative probability mass is >= the uniform number, the last item when
\* no cumulative mass reaches it, and so always an item of the Lootbox.
C23_FirstItemReachingMass ==
    last.op = "simulate_single_opening" =>
        LET probs == Probs(pool, boxes[1].items)
            reach == {k \in DOMAIN probs : CumulativeMass(probs, k) >= last.rand}
        IN /\ last.item \in DOMAIN probs
           /\ reach # {} => last.item \in reach /\ \A k \in reach : last.item <= k
           /\ reach = {} => last.item = Len(probs)

\* C23's case: the total mass is short of the uniform number and the last
\* item came back.
C23_Witness ==
    /\ last.op = "simulate_single_opening"
    /\ SeqSum(Probs(pool, boxes[1].items)) < last.rand
    /\ last.item = Len(boxes[1].items)

\* C28: simulate_single_opening never returns an item whose probability is
\* 0, whatever the item order and the uniform number (0 included).
C28_NeverZeroProbabilityItem ==
    last.op = "simulate_single_opening" =>
        ProbOf(pool, boxes[1].items[last.item]) > 0

-----------------------------------------------------------------------------
(* More claims about the calculator *)

\* The probability mass of the items of value v or less.
MassUpTo(box, v) ==
    SeqSum([i \in DOMAIN box.items |->
              IF box.items[i].value <= v THEN ProbOf(pool, box.items[i]) ELSE 0])

\* C24: for each percentile p, calculate_value_percentiles reports the least
\* item value whose cumulative mass in ascending-value order strictly exceeds
\* p/100 (a mass equal to p/100 resolves to the next higher value), and the
\* maximum item value when no cumulative mass exceeds p/100.
C24_PercentileRightOpen ==
    last.op = "calculate_value_percentiles" =>
        \A k \in DOMAIN last.percentiles :
            LET box == boxes[last.slot]
                target == last.percentiles[k] * (One \div 100)
                above == {i \in DOMAIN box.items :
                             MassUpTo(box, box.items[i].value) > target}
            IN IF above = {} THEN last.out[k] = MaxValue(box)
               ELSE /\ \E i \in above : last.out[k] = box.items[i].value
                    /\ \A i \in above : last.out[k] <= box.items[i].value

\* C24's case: a percentile that falls exactly on a cumulative mass and is
\* reported as the next higher value, next to one no mass exceeds.
C24_Witness ==
    /\ last.op = "calculate_value_percentiles"
    /\ \E k \in DOMAIN last.percentiles, i \in DOMAIN boxes[last.slot].items :
          /\ MassUpTo(boxes[last.slot], boxes[last.slot].items[i].value)
                = last.percentiles[k] * (One \div 100)
          /\ last.out[k] > boxes[last.slot].items[i].value
    /\ \E k \in DOMAIN last.percentiles :
          /\ last.percentiles[k] * (One \div 100)
                >= SeqSum(Probs(pool, boxes[last.slot].items))
          /\ last.out[k] = MaxValue(boxes[last.slot])

\* The length of the longest run of consecutive outcomes equal to b.
LongestRun(outcomes, b) ==
    LET lens == {0} \cup {j - i + 1 : i, j \in DOMAIN outcomes} 
        isRun(n) == \E i \in DOMAIN outcomes :
                        /\ i + n - 1 <= Len(outcomes)
                        /\ \A k \in i .. i + n - 1 : outcomes[k] = b
    IN CHOOSE n \in lens :
          /\ n = 0 \/ (n > 0 /\ isRun(n))
          /\ \A m \in lens : (m > n) => ~(m > 0 /\ isRun(m))

\* C25: for n >= 1 draws every draw belongs to exactly one counted run: the
\* win runs sum to total_wins, the loss runs to total_losses, the two totals
\* to n, the averages times the numbers of runs give the totals back, and the
\* maxima are the lengths of the longest runs of wins and of losses.
C25_RunsCoverEveryDraw ==
    (last.op = "analyze_streak_patterns" /\ last.n >= 1) =>
        /\ ~last.out.raised
        /\ LET r == last.out.result
           IN /\ Len(r.outcomes) = last.n
              /\ r.total_wins = Cardinality({k \in DOMAIN r.outcomes : r.outcomes[k]})
              /\ r.total_wins + r.total_losses = last.n
              /\ SeqSum(r.win_streaks) = r.total_wins
              /\ SeqSum(r.loss_streaks) = r.total_losses
              /\ Abs(r.num_win_streaks * r.avg_win_streak - 1000 * r.total_wins)
                    <= r.num_win_streaks
              /\ Abs(r.num_loss_streaks * r.avg_loss_streak - 1000 * r.total_losses)
                    <= r.num_loss_streaks
              /\ r.max_win_streak = LongestRun(r.outcomes, TRUE)
              /\ r.max_loss_streak = LongestRun(r.outcomes, FALSE)

\* C25's case: wins and losses both occur and the sequence ends in a run of
\* two or more draws.
C25_Witness ==
    /\ last.op = "analyze_streak_patterns" /\ last.n >= 3 /\ ~last.out.raised
    /\ last.out.result.num_win_streaks >= 1
    /\ last.out.result.num_loss_streaks >= 1
    /\ last.out.result.outcomes[last.n] = last.out.result.outcomes[last.n - 1]

\* The number of positions where consecutive outcomes differ.
Changes(outcomes) ==
    Cardinality({k \in 1 .. Len(outcomes) - 1 : outcomes[k] # outcomes[k + 1]})

\* The counted runs of a returned streak analysis alternate.
RunsAlternate(r) ==
    /\ Abs(r.num_win_streaks - r.num_loss_streaks) <= 1
    /\ r.num_win_streaks + r.num_loss_streaks = 1 + Changes(r.outcomes)

\* C29: for every outcome sequence analyze_streak_patterns reports run counts
\* with |num_win_streaks - num_loss_streaks| <= 1 and num_win_streaks +
\* num_loss_streaks equal to one plus the number of positions where
\* consecutive outcomes differ.
C29_RunsAlternate ==
    last.op = "analyze_streak_patterns" =>
        ~last.out.raised /\ RunsAlternate(last.out.result)

\* The same for the analyses that return a result.
C29_RunsAlternateWhenReturned ==
    (last.op = "analyze_streak_patterns" /\ ~last.out.raised) =>
        RunsAlternate(last.out.result)

-----------------------------------------------------------------------------
(* More claims about the optimizer *)

\* The probability vector probabilities keeps every item inside the bounds
\* of its rarity.
WithinTierBounds(items, constraints, probabilities) ==
    \A i \in DOMAIN items :
        /\ probabilities[i] >= min_prob(constraints, items[i].rarity)
        /\ probabilities[i] <= max_prob(constraints, items[i].rarity)

\* Bounds some probability vector can meet: each minimum at most its maximum,
\* the minima summing to 1 or less and the maxima to 1 or more.
BoundsFeasible(items, constraints) ==
    /\ \A i \in DOMAIN items :
          min_prob(constraints, items[i].rarity) <= max_prob(constraints, items[i].rarity)
    /\ SeqSum([i \in DOMAIN items |-> min_prob(constraints, items[i].rarity)]) <= One
    /\ SeqSum([i \in DOMAIN items |-> max_prob(constraints, items[i].rarity)]) >= One

\* C26: every candidate of every generation of the genetic search, and the
\* best one it returns, keeps every item's probability inside the bounds of
\* its rarity (stated for bounds that can be met).
C26_GeneticWithinTierBounds ==
    (ga.phase \in {"evolving", "returned"} /\ BoundsFeasible(ga.items, ga.constraints)) =>
        /\ \A k \in DOMAIN ga.population :
              WithinTierBounds(ga.items, ga.constraints, ga.population[k])
        /\ ga.has_best =>
              WithinTierBounds(ga.items, ga.constraints, ga.best_individual)

-----------------------------------------------------------------------------
(* Claims about the analytics record *)

\* The ratings from best to worst.
RatingOrder ==
    <<"Excellent (Player Advantage)", "Very Good", "Good", "Fair", "Poor", "Very Poor">>

RatingRank(rating) == CHOOSE k \in DOMAIN RatingOrder : RatingOrder[k] = rating

\* The band of the house edge h: 1 below 0, then one band per tenth, 6 from
\* 0.4 on.
RatingBand(h) ==
    IF h < 0 THEN 1
    ELSE Min2(6, 2 + Cardinality({b \in 1 .. 4 : b * (One \div 10) <= h}))

\* C27: get_player_value_rating gives exactly the label of the half-open
\* band of the house edge (below 0; [0, 0.1); [0.1, 0.2); [0.2, 0.3);
\* [0.3, 0.4); 0.4 and more), and the rating never improves as the house
\* edge increases.
C27_RatingBands ==
    last.op = "get_player_value_rating" =>
        /\ last.rating \in Range(RatingOrder)
        /\ last.rating = RatingOrder[RatingBand(last.house_edge)]
        /\ \A i \in DOMAIN last.before :
              last.before[i].house_edge <= last.house_edge =>
                  RatingRank(last.before[i].rating) <= RatingRank(last.rating)

\* C27's case: a house edge exactly at a band end is rated in the upper
\* band, after one just below it was rated in the lower band.
C27_Witness ==
    /\ last.op = "get_player_value_rating" /\ last.before # <<>>
    /\ last.house_edge = One \div 10 /\ last.rating = "Good"
    /\ last.before[1].house_edge = One \div 10 - 1
    /\ last.before[1].rating = "Very Good"

-----------------------------------------------------------------------------
(* Claims about the iterative optimizer *)

\* The item values of the Lootbox being optimized.
IterValues == [i \in DOMAIN last.lootbox.items |-> last.lootbox.items[i].value]

\* At most 1000 passes, and the working probabilities sum to 1 (up to their
\* rounding) at the end of every pass.
IterBoundedAndNormalized ==
    /\ last.iteration <= MaxIterations
    /\ last.stepped =>
          Abs(SeqSum(last.probabilities) - One) <= Len(last.probabilities)

\* The last pass moved the expected value the right way: not up when the
\* house edge was below the target, not down when it was above.
IterRightDirection ==
    LET ev == ZipExpectedValue(IterValues, last.probabilities)
    IN /\ last.house_edge_before < last.target_house_edge =>
             ev <= last.ev_before
       /\ last.house_edge_before > last.target_house_edge =>
             ev >= last.ev_before

\* A return before the 1000th pass gives a house edge within 0.001 of the
\* target.
IterEarlyExitOnTarget ==
    (last.phase = "returned" /\ last.iteration < MaxIterations) =>
        /\ ~last.out.raised
        /\ Abs(get_house_edge(pool, last.out.made) - last.target_house_edge)
              < One \div 1000

IterNoItemAboveCost ==
    \A i \in DOMAIN last.lootbox.items :
        last.lootbox.items[i].value <= last.lootbox.cost

====
